---- MODULE Spec2Model ----
(***************************************************************************)
(* Parsnip: a runtime-configurable recursive-descent parser generator.     *)
(* The model covers the lexer (lib/lexer.ts), the token stream, and the    *)
(* parser engine (lib/parser.ts) interpreting object grammars.             *)
(*                                                                         *)
(* Strings of the program are sequences of one-character strings, so that  *)
(* the lexer scans them character by character as the code does.           *)
(***************************************************************************)
EXTENDS Integers, Sequences, FiniteSets, TLC

\* ------------------------------------------------------------------------
\* Characters
\* ------------------------------------------------------------------------
NL == "\n"
QUOTE == "\""

UpperLetters == <<"A","B","C","D","E","F","G","H","I","J","K","L","M",
                  "N","O","P","Q","R","S","T","U","V","W","X","Y","Z">>
LowerLetters == <<"a","b","c","d","e","f","g","h","i","j","k","l","m",
                  "n","o","p","q","r","s","t","u","v","w","x","y","z">>
DigitChars == <<"0","1","2","3","4","5","6","7","8","9">>

Range(s) == {s[i] : i \in DOMAIN s}
UpperSet == Range(UpperLetters)
DigitSet == Range(DigitChars)
AlphaSet == Range(UpperLetters) \cup Range(LowerLetters)
WhitespaceSet == {" ", NL, "\t"}

\* /\s/
IsWhitespace(c) == c \in WhitespaceSet
\* /[0-9]/
IsDigit(c) == c \in DigitSet
\* /[a-zA-Z]/
IsAlpha(c) == c \in AlphaSet
\* /[a-zA-Z0-9]/
IsAlphaNum(c) == IsAlpha(c) \/ IsDigit(c)

operators == {"+", "-", "*", "/", ">", "<", "=", "%"}
brackets == {"(", ")", "[", "]", "{", "}"}

\* String.prototype.toLowerCase, character by character
ToLowerChar(c) ==
  IF c \in UpperSet
  THEN LowerLetters[CHOOSE i \in DOMAIN UpperLetters : UpperLetters[i] = c]
  ELSE c
toLowerCase(s) == [i \in DOMAIN s |-> ToLowerChar(s[i])]

RECURSIVE Concat(_)
Concat(ss) == IF ss = <<>> THEN <<>> ELSE Head(ss) \o Concat(Tail(ss))

\* ------------------------------------------------------------------------
\* Lexer (lib/lexer.ts)
\* ------------------------------------------------------------------------
Token(type, value, line, column, index) ==
  [type |-> type, value |-> value, line |-> line, column |-> column,
   index |-> index]

\* `input[i]` of the code, with a 0-based index; "" stands for undefined
CharAt(input, i) == IF i >= 0 /\ i < Len(input) THEN input[i + 1] ELSE ""

\* the conditions of the inner loops, by the token they scan
InRun(run, c) ==
  CASE run = "whitespace" -> IsWhitespace(c)
    [] run = "comment" -> c # NL
    [] run = "number" -> IsDigit(c) \/ c = "."
    [] run = "string" -> c # QUOTE
    [] run = "word" -> IsAlphaNum(c)

\* the inner `while (current < input.length && <class>(input[current]))`
\* loops: the first offset e >= cur where the loop stops
ScanEnd(input, cur, run) ==
  CHOOSE e \in cur..Len(input) :
    /\ (e = Len(input) \/ ~InRun(run, CharAt(input, e)))
    /\ \A k \in cur..(e - 1) : InRun(run, CharAt(input, k))

Slice(input, from, to) == SubSeq(input, from + 1, to)

\* a column counter that a newline sets to 0
ColumnAfter_FromZero(column, run) ==
  LET nls == {k \in DOMAIN run : run[k] = NL}
  IN IF nls = {} THEN column + Len(run)
     ELSE Len(run) - (CHOOSE k \in nls : \A j \in nls : j <= k)

\* line and column counters after a run that may hold newlines
LineAfter(line, run) == line + Cardinality({k \in DOMAIN run : run[k] = NL})
ColumnAfter(column, run) ==
  LET nls == {k \in DOMAIN run : run[k] = NL}
  IN IF nls = {} THEN column + Len(run)
     ELSE 1 + (Len(run) - (CHOOSE k \in nls : \A j \in nls : j <= k))

LexWhitespace(input, current, line, column) ==
  LET e == ScanEnd(input, current, "whitespace")
      value == Slice(input, current, e)
  IN [tok |-> <<Token("whitespace", value, LineAfter(line, value), column, e)>>,
      current |-> e, line |-> LineAfter(line, value),
      column |-> ColumnAfter(column, value), ok |-> TRUE]

LexComment(input, current, line, column) ==
  LET e == ScanEnd(input, current, "comment")
      value == Slice(input, current, e)
  IN [tok |-> <<Token("comment", value, line, column, e)>>,
      current |-> e, line |-> line, column |-> column + Len(value),
      ok |-> TRUE]

LexNumber(input, current, line, column) ==
  LET char == CharAt(input, current)
      signed == char = "+" \/ char = "-"
      start == IF signed THEN current + 1 ELSE current
      e == ScanEnd(input, start, "number")
      value == Slice(input, current, e)
  IN [tok |-> <<Token("number", value, line, column, e)>>,
      current |-> e, line |-> line, column |-> column + Len(value),
      ok |-> TRUE]

LexString(input, current, line, column) ==
  LET e == ScanEnd(input, current + 1, "string")
      body == Slice(input, current + 1, e)
      line2 == LineAfter(line, body)
      column2 == ColumnAfter(column + 1, body)
  IN IF e >= Len(input)
     THEN \* LexerError: `Unterminated string literal at line ${line}:${startColumn}`
          [tok |-> <<>>, current |-> e, line |-> line2, column |-> column,
           ok |-> FALSE]
     ELSE [tok |-> <<Token("string", Slice(input, current, e + 1), line2,
                           column, e + 1)>>,
           current |-> e + 1, line |-> line2, column |-> column2 + 1,
           ok |-> TRUE]

LexOperator(input, current, line, column) ==
  [tok |-> <<Token("operator", <<CharAt(input, current)>>, line, column, current)>>,
   current |-> current + 1, line |-> line, column |-> column + 1, ok |-> TRUE]

LexBracket(input, current, line, column) ==
  [tok |-> <<Token("bracket", <<CharAt(input, current)>>, line, column, current)>>,
   current |-> current + 1, line |-> line, column |-> column + 1, ok |-> TRUE]

LexWord(input, current, line, column, keywords) ==
  LET e == ScanEnd(input, current, "word")
      value == Slice(input, current, e)
      type == IF value \in keywords THEN "keyword" ELSE "identifier"
  IN [tok |-> <<Token(type, value, line, column, e)>>,
      current |-> e, line |-> line, column |-> column + Len(value),
      ok |-> TRUE]

LexUnknown(input, current, line, column) ==
  [tok |-> <<>>, current |-> current + 1, line |-> line,
   column |-> column + 1, ok |-> TRUE]

\* a loop whose number branch begins at a digit only
LexStep_Unsigned(input, current, line, column, keywords) ==
  LET char == CharAt(input, current)
      next == CharAt(input, current + 1)
  IN IF IsWhitespace(char) THEN LexWhitespace(input, current, line, column)
     ELSE IF char = "/" /\ next = "/" THEN LexComment(input, current, line, column)
     ELSE IF IsDigit(char) THEN LexNumber(input, current, line, column)
     ELSE IF char = QUOTE THEN LexString(input, current, line, column)
     ELSE IF char \in operators THEN LexOperator(input, current, line, column)
     ELSE IF char \in brackets THEN LexBracket(input, current, line, column)
     ELSE IF IsAlpha(char) THEN LexWord(input, current, line, column, keywords)
     ELSE LexUnknown(input, current, line, column)

\* one iteration of the main `while (current < input.length)` loop
LexStep(input, current, line, column, keywords) ==
  LET char == CharAt(input, current)
      next == CharAt(input, current + 1)
  IN IF IsWhitespace(char) THEN LexWhitespace(input, current, line, column)
     ELSE IF char = "/" /\ next = "/" THEN LexComment(input, current, line, column)
     ELSE IF IsDigit(char) \/ ((char = "+" \/ char = "-") /\ IsDigit(next))
          THEN LexNumber(input, current, line, column)
     ELSE IF char = QUOTE THEN LexString(input, current, line, column)
     ELSE IF char \in operators THEN LexOperator(input, current, line, column)
     ELSE IF char \in brackets THEN LexBracket(input, current, line, column)
     ELSE IF IsAlpha(char) THEN LexWord(input, current, line, column, keywords)
     ELSE LexUnknown(input, current, line, column)

RECURSIVE LexLoop(_, _, _, _, _, _)
\* the loop after one iteration s
LexNext(input, toks, keywords, s) ==
  IF ~s.ok
  THEN [ok |-> FALSE, all |-> toks, line |-> s.line, column |-> s.column]
  ELSE LexLoop(input, s.current, s.line, s.column, toks \o s.tok, keywords)

LexLoop(input, current, line, column, toks, keywords) ==
  IF current >= Len(input)
  THEN [ok |-> TRUE, all |-> toks, line |-> 0, column |-> 0]
  ELSE LexNext(input, toks, keywords,
               LexStep(input, current, line, column, keywords))

\* tokens.filter((token) => token.type !== "whitespace")
FilterWhitespace(toks) == SelectSeq(toks, LAMBDA t : t.type # "whitespace")

\* lex(input, keywords): the token stream's token list, or a LexerError with
\* the line and column its message reports
createTokenStream(r) ==
  [ok |-> r.ok, all |-> r.all, tokens |-> FilterWhitespace(r.all),
   line |-> r.line, column |-> r.column]
lex(input, keywords) ==
  createTokenStream(LexLoop(input, 0, 1, 1, <<>>, keywords))

\* ------------------------------------------------------------------------
\* CST values (lib/types.ts ASTResult) and JavaScript truthiness
\* ------------------------------------------------------------------------
Nil == [k |-> "nil"]
StrV(s) == [k |-> "str", s |-> s]
ListV(items) == [k |-> "list", items |-> items]
NodeV(type, value) == [k |-> "node", type |-> type, value |-> value]
NodeAt(type, value, line, column) ==
  [k |-> "node", type |-> type, value |-> value, line |-> line,
   column |-> column]

DigitVal(c) == (CHOOSE i \in DOMAIN DigitChars : DigitChars[i] = c) - 1
RECURSIVE DigitsToInt(_)
DigitsToInt(ds) ==
  IF ds = <<>> THEN 0
  ELSE 10 * DigitsToInt(SubSeq(ds, 1, Len(ds) - 1)) + DigitVal(ds[Len(ds)])
RECURSIVE StripTrailingZeros(_)
StripTrailingZeros(ds) ==
  IF ds # <<>> /\ ds[Len(ds)] = "0"
  THEN StripTrailingZeros(SubSeq(ds, 1, Len(ds) - 1)) ELSE ds

\* Number(token.value) for a lexeme of the number branch: sign, digits, dots
NumberOf(value) ==
  LET signed == value # <<>> /\ value[1] \in {"+", "-"}
      body == IF signed THEN Tail(value) ELSE value
      dots == {i \in DOMAIN body : body[i] = "."}
      dot == IF dots = {} THEN Len(body) + 1 ELSE CHOOSE i \in dots : TRUE
      nan == Cardinality(dots) > 1 \/ (dots # {} /\ Len(body) = 1)
  IN IF nan THEN [k |-> "num", nan |-> TRUE, neg |-> FALSE, int |-> 0,
                  frac |-> <<>>]
     ELSE [k |-> "num", nan |-> FALSE,
           neg |-> signed /\ value[1] = "-",
           int |-> DigitsToInt(SubSeq(body, 1, dot - 1)),
           frac |-> StripTrailingZeros(SubSeq(body, dot + 1, Len(body)))]

\* `if (parsed)`
Truthy(v) ==
  CASE v.k = "nil" -> FALSE
    [] v.k = "str" -> v.s # <<>>
    [] v.k = "num" -> ~v.nan /\ (v.int # 0 \/ v.frac # <<>>)
    [] OTHER -> TRUE

\* ------------------------------------------------------------------------
\* Rules and grammars (lib/types.ts Rule, RuleOrString, Grammar)
\* ------------------------------------------------------------------------
\* A rule record carries every field; type = "" and parse = "" stand for an
\* absent field, hasSeq / hasOpts tell an absent list from an empty one,
\* undef marks `undefined` (an absent endToken, a missing grammar entry).
NoRule ==
  [undef |-> FALSE, isString |-> FALSE, lit |-> <<>>, type |-> "",
   capture |-> FALSE, parse |-> "", hasSeq |-> FALSE, sequence |-> <<>>,
   repeat |-> FALSE, optional |-> FALSE, hasOpts |-> FALSE, options |-> <<>>]
Undefined == [NoRule EXCEPT !.undef = TRUE]
Kw(s) == [NoRule EXCEPT !.isString = TRUE, !.lit = s]
Ref(t) == [NoRule EXCEPT !.type = t]
Seq_(rs) == [NoRule EXCEPT !.hasSeq = TRUE, !.sequence = rs]
Opts(rs) == [NoRule EXCEPT !.hasOpts = TRUE, !.options = rs]
Capture(t, r) == [r EXCEPT !.type = t, !.capture = TRUE]
Terminal(cb) == [NoRule EXCEPT !.parse = cb]

\* this.grammar[name]
Lookup(G, name) == IF name \in DOMAIN G THEN G[name] ELSE Undefined

\* findKeywords: every bare string met while walking sequence and options
RECURSIVE walkRule(_)
walkRule(rule) ==
  IF rule.isString THEN {rule.lit}
  ELSE UNION {walkRule(rule.sequence[i]) : i \in DOMAIN rule.sequence}
       \cup UNION {walkRule(rule.options[i]) : i \in DOMAIN rule.options}
findKeywords(G) == UNION {walkRule(G[n]) : n \in DOMAIN G}

\* ------------------------------------------------------------------------
\* Errors, results and the evaluation log
\* ------------------------------------------------------------------------
NoToken == Token("none", <<>>, 0, 0, 0 - 1)
Message(id, lit, value, type) ==
  [id |-> id, lit |-> lit, value |-> value, type |-> type]
\* kind: "ParseError" | "Error" (token stream) | "TypeError" | "Undefined"
Err(kind, msg, hasTok, tok) ==
  [kind |-> kind, msg |-> msg, hasTok |-> hasTok, tok |-> tok, exit |-> FALSE]
ParseError(msg) == Err("ParseError", msg, FALSE, NoToken)
ParseErrorAt(msg, tok) == Err("ParseError", msg, TRUE, tok)
NoErr == Err("none", Message("", <<>>, <<>>, ""), FALSE, NoToken)
EndOfInput == Message("Unexpected end of input", <<>>, <<>>, "")

\* one entry of the evaluation log
Ev(op, from, to, st, val, tok, alts, err) ==
  [op |-> op, from |-> from, to |-> to, st |-> st, val |-> val, tok |-> tok,
   alts |-> alts, err |-> err]

\* outcome of evaluating a rule: st is "ok", "throw" or "diverge"; pos is the
\* cursor of the token stream afterwards
Ok(pos, val, log) == [st |-> "ok", pos |-> pos, val |-> val, err |-> NoErr, log |-> log]
Throw(pos, err, log) == [st |-> "throw", pos |-> pos, val |-> Nil, err |-> err, log |-> log]
Diverge(pos, log) == [st |-> "diverge", pos |-> pos, val |-> Nil, err |-> NoErr, log |-> log]

\* ------------------------------------------------------------------------
\* Parser engine (lib/parser.ts)
\* ------------------------------------------------------------------------
\* recursion budget of one parse; an evaluation that exhausts it is reported
\* as "diverge" (the code would not return)
MaxDepth == 80

\* tokens.peek() is undefined
Exhausted(toks, pos) == pos >= Len(toks)

\* `while (peek?.type === "comment" || peek?.type === "whitespace") consume()`
SkipIgnored(toks, pos) ==
  CHOOSE e \in pos..Len(toks) :
    /\ (e = Len(toks) \/ toks[e + 1].type \notin {"comment", "whitespace"})
    /\ \A k \in pos..(e - 1) : toks[k + 1].type \in {"comment", "whitespace"}

\* a test that takes every rule string for a word
isAlphaNumeric_Always(rule) == TRUE

\* /^[a-zA-Z0-9]+$/.test(rule)
isAlphaNumeric(rule) == rule # <<>> /\ \A i \in DOMAIN rule : IsAlphaNum(rule[i])

\* a keyword literal compared as the plain `!==` would compare it
matchesLiteral_CaseSensitive(value, rule) == value = rule

\* `value.toLowerCase() !== rule.toLowerCase()`, negated
matchesLiteral(value, rule) == toLowerCase(value) = toLowerCase(rule)

parseKeyword(ctx, rule, pos) ==
  IF Exhausted(ctx.tokens, pos)
  THEN Throw(pos, Err("Error", EndOfInput, FALSE, NoToken), <<>>)
  ELSE LET token == ctx.tokens[pos + 1]
           value == token.value
           ev(st, val, e) == <<Ev("keyword", pos, pos + 1, st, val, token, <<>>, e)>>
           unexpected == ParseErrorAt(Message("Unexpected keyword", <<>>, value, ""), token)
           mismatch == ParseErrorAt(Message("Expected literal but got", rule, value, ""), token)
       IN IF token.type = "keyword" /\ ~isAlphaNumeric(rule)
          THEN Throw(pos + 1, unexpected, ev("throw", Nil, unexpected))
          ELSE IF ~matchesLiteral(value, rule)
          THEN Throw(pos + 1, mismatch, ev("throw", Nil, mismatch))
          ELSE IF ~ctx.debug THEN Ok(pos + 1, Nil, ev("ok", Nil, NoErr))
          ELSE LET node == NodeAt("KEYWORD", StrV(value), token.line, token.column)
               IN Ok(pos + 1, node, ev("ok", node, NoErr))

\* the parse callbacks of the grammars: "value" is the Hello grammar's noun
\* (token => token.value); STRING, NUMBER, IDENTIFIER are grammar.ts's
Callback(name, token) ==
  CASE name = "value" -> [ok |-> TRUE, val |-> StrV(token.value), msg |-> ""]
    [] name = "STRING" ->
         IF token.type # "string"
         THEN [ok |-> FALSE, val |-> Nil, msg |-> "Expected a string literal"]
         ELSE [ok |-> TRUE, msg |-> "",
               val |-> StrV(SubSeq(token.value, 2, Len(token.value) - 1))]
    [] name = "NUMBER" ->
         IF token.type # "number"
         THEN [ok |-> FALSE, val |-> Nil, msg |-> "Expected a number literal"]
         ELSE [ok |-> TRUE, msg |-> "", val |-> NumberOf(token.value)]
    [] name = "IDENTIFIER" ->
         IF token.type # "identifier"
         THEN [ok |-> FALSE, val |-> Nil, msg |-> "Expected an identifier"]
         ELSE [ok |-> TRUE, msg |-> "", val |-> StrV(token.value)]

\* a wrapper that leaves the token out
wrapThrown_NoToken(e, token) == ParseError(Message(e, <<>>, <<>>, ""))

\* `catch (e) { throw new ParseError(e as string, token) }`
wrapThrown(e, token) == ParseErrorAt(Message(e, <<>>, <<>>, ""), token)

\* a terminal that reads the token with peek and leaves the cursor on it
parsePrimitiveRule_Peek(ctx, rule, pos) ==
  IF Exhausted(ctx.tokens, pos)
  THEN Throw(pos, Err("Error", EndOfInput, FALSE, NoToken), <<>>)
  ELSE LET token == ctx.tokens[pos + 1]
           c == Callback(rule.parse, token)
           ev(st, val, e) == <<Ev("terminal", pos, pos, st, val, token, <<>>, e)>>
       IN IF c.ok THEN Ok(pos, c.val, ev("ok", c.val, NoErr))
          ELSE Throw(pos, wrapThrown(c.msg, token),
                     ev("throw", Nil, wrapThrown(c.msg, token)))

parsePrimitiveRule(ctx, rule, pos) ==
  IF rule.parse = ""
  THEN Throw(pos, ParseError(Message("Expected a subparser function for literal",
                                     <<>>, <<>>, "")), <<>>)
  ELSE IF Exhausted(ctx.tokens, pos)
  THEN Throw(pos, Err("Error", EndOfInput, FALSE, NoToken), <<>>)
  ELSE LET token == ctx.tokens[pos + 1]
           c == Callback(rule.parse, token)
           ev(st, val, e) == <<Ev("terminal", pos, pos + 1, st, val, token, <<>>, e)>>
       IN IF c.ok THEN Ok(pos + 1, c.val, ev("ok", c.val, NoErr))
          ELSE Throw(pos + 1, wrapThrown(c.msg, token),
                     ev("throw", Nil, wrapThrown(c.msg, token)))

RECURSIVE parseRule(_, _, _, _, _, _)
RECURSIVE sequenceStep(_, _, _, _, _, _, _, _)
RECURSIVE repeatLoop(_, _, _, _, _, _, _, _, _)
RECURSIVE optionsStep(_, _, _, _, _, _, _, _, _, _, _, _, _)

\* tokens.seek(position), as a log entry
SeekEv(from, to) == Ev("seek", from, to, "ok", Nil, NoToken, <<>>, NoErr)

\* log entry of a finished sub-parser call
Logged(op, from, r, log, alts) ==
  [r EXCEPT !.log = log \o <<Ev(op, from, r.pos, r.st, r.val, NoToken, alts, r.err)>>]

\* a push without the `if (parsed)` test
Push_Always(result, parsed) == Append(result, parsed)

\* `if (parsed) result.push(parsed)`
Push(result, parsed) == IF Truthy(parsed) THEN Append(result, parsed) ELSE result

\* rule.sequence[i + 1], undefined past the end
NextRule(sequence, i) ==
  IF i + 1 <= Len(sequence) THEN sequence[i + 1] ELSE Undefined

\* a sequence that always returns its list
Unwrap_Never(result) == ListV(result)

\* `return result.length === 1 ? result[0] : result`
Unwrap(result) == IF Len(result) = 1 THEN result[1] ELSE ListV(result)

\* parseSequenceRule's loop once child i has been evaluated to `parsed`:
\* a failure ends the sequence, the last child ends it with the collected
\* result, otherwise child i + 1 is evaluated where child i stopped
sequenceStep(ctx, sequence, i, currentType, result, log, fuel, parsed) ==
  CASE parsed.st # "ok" -> [parsed EXCEPT !.log = log \o parsed.log]
    [] parsed.st = "ok" /\ i >= Len(sequence) ->
         Ok(parsed.pos, Unwrap(Push(result, parsed.val)), log \o parsed.log)
    [] parsed.st = "ok" /\ i < Len(sequence) ->
         sequenceStep(ctx, sequence, i + 1, currentType,
                      Push(result, parsed.val), log \o parsed.log, fuel,
                      parseRule(ctx, sequence[i + 1], currentType,
                                NextRule(sequence, i + 1), parsed.pos, fuel - 1))

\* the loop goes on (the body returned, or threw something the catch block
\* drops) with the cursor where the iteration found it: the next iteration
\* peeks, probes and evaluates the same rule at the same cursor, and so does
\* every one after it
Stuck(at, parsed) ==
  /\ parsed.pos = at
  /\ \/ parsed.st = "ok"
     \/ parsed.st = "throw" /\ parsed.err.kind # "ParseError"

\* the body of the repetition's loop (the second try block), once the
\* stripped rule has been evaluated at cursor `at` to `parsed`; start is the
\* cursor at which the repetition began
repeatBody(ctx, rule, currentType, endToken, result, log, fuel, start, at, parsed) ==
  CASE parsed.st = "diverge" -> Diverge(parsed.pos, log \o parsed.log)
    [] Stuck(at, parsed) -> Diverge(parsed.pos, log \o parsed.log)
    [] parsed.st = "ok" /\ ~Stuck(at, parsed) ->
         repeatLoop(ctx, rule, currentType, endToken, parsed.pos,
                    Push(result, parsed.val), log \o parsed.log, fuel - 1, start)
    [] parsed.st = "throw" /\ parsed.err.kind = "ParseError" ->
         Logged("repeat", start,
                Throw(parsed.pos, [parsed.err EXCEPT !.exit = TRUE], <<>>),
                log \o parsed.log, <<>>)
    [] parsed.st = "throw" /\ parsed.err.kind # "ParseError"
       /\ ~Stuck(at, parsed) ->
         \* any other exception is caught and dropped; the loop goes on
         repeatLoop(ctx, rule, currentType, endToken, parsed.pos, result,
                    log \o parsed.log, fuel - 1, start)

\* a probe that leaves the cursor where the attempt on endToken stopped
ProbeSeek_Stay(position, probedTo) == probedTo

\* where the cursor stands after the probe: tokens.seek(position), in the
\* try block and in its catch block alike
ProbeSeek(position, probedTo) == position

\* log entries of a finished probe: the seek, and the probe itself with the
\* sentinel it tried and the cursor before and after
ProbeLog(endToken, position, probe) ==
  <<SeekEv(probe.pos, ProbeSeek(position, probe.pos)),
    Ev("probe", position, ProbeSeek(position, probe.pos), probe.st,
       StrV(endToken.lit), NoToken, <<>>, probe.err)>>

\* the sentinel probe (the first try block), once endToken has been
\* evaluated at the cursor to `probe`; both outcomes seek back to pos
repeatProbe(ctx, rule, currentType, endToken, pos, result, log, fuel, start, probe) ==
  CASE probe.st = "diverge" -> Diverge(pos, log \o probe.log)
    [] probe.st = "ok" ->
         Logged("repeat", start,
                Ok(ProbeSeek(pos, probe.pos), ListV(result), <<>>),
                log \o probe.log \o ProbeLog(endToken, pos, probe), <<>>)
    [] probe.st = "throw" ->
         repeatBody(ctx, rule, currentType, endToken, result,
                    log \o probe.log \o ProbeLog(endToken, pos, probe), fuel,
                    start, ProbeSeek(pos, probe.pos),
                    parseRule(ctx, [rule EXCEPT !.repeat = FALSE], currentType,
                              endToken, ProbeSeek(pos, probe.pos), fuel - 1))

\* which way one iteration of the `while (true)` loop goes
RepeatBranch(ctx, endToken, pos, fuel) ==
  IF fuel = 0 THEN "diverge"
  ELSE IF Exhausted(ctx.tokens, pos) THEN "break"
  ELSE IF ~endToken.undef /\ endToken.lit # <<>> THEN "probe"
  ELSE "body"

\* one iteration of the `while (true)` loop of parseRepeatingRule
repeatLoop(ctx, rule, currentType, endToken, pos, result, log, fuel, start) ==
  LET b == RepeatBranch(ctx, endToken, pos, fuel)
  IN CASE b = "diverge" -> Diverge(pos, log)
       [] b = "break" ->
            Logged("repeat", start, Ok(pos, ListV(result), <<>>), log, <<>>)
       [] b = "probe" ->
            repeatProbe(ctx, rule, currentType, endToken, pos, result, log,
                        fuel, start,
                        parseRule(ctx, endToken, currentType, endToken, pos,
                                  fuel - 1))
       [] b = "body" ->
            repeatBody(ctx, rule, currentType, endToken, result, log, fuel,
                       start, pos,
                       parseRule(ctx, [rule EXCEPT !.repeat = FALSE],
                                 currentType, endToken, pos, fuel - 1))

\* the try / catch of parseOptionalRule around the evaluation `result` of
\* the stripped rule
optionalCatch(position, result) ==
  CASE result.st # "throw" -> Logged("optional", position, result, result.log, <<>>)
    [] result.st = "throw" /\ result.err.kind = "ParseError" ->
         Logged("optional", position, Ok(position, Nil, <<>>),
                result.log \o <<SeekEv(result.pos, position)>>, <<>>)
    [] result.st = "throw" /\ result.err.kind # "ParseError" ->
         Logged("optional", position, result, result.log, <<>>)

\* the furthest-error bookkeeping of one caught ParseError e
FurthestAfter(hasFurthest, furthestError, furthestErrorCount, e) ==
  IF ~hasFurthest
  THEN [err |-> e, count |-> 1]
  ELSE IF e.hasTok /\ furthestError.hasTok
          /\ e.tok.index >= furthestError.tok.index
  THEN LET assigned == e    \* furthestError = e, before the comparison below
       IN [err |-> assigned,
           count |-> IF e.tok.index > assigned.tok.index THEN 1
                     ELSE furthestErrorCount + 1]
  ELSE [err |-> furthestError, count |-> furthestErrorCount]

\* what parseOptionsRule throws when no alternative matched
optionsFailure(currentType, hasFurthest, furthest) ==
  IF ~hasFurthest
  THEN Err("Undefined", Message("", <<>>, <<>>, ""), FALSE, NoToken)
  ELSE IF furthest.count > 1
  THEN Err("ParseError",
           Message("Expected type but got", <<>>, furthest.err.tok.value,
                   currentType),
           furthest.err.hasTok, furthest.err.tok)
  ELSE furthest.err

\* a seek to the start of the stream
SeekBack_Start(position, failedAt) == 0

\* a seek to the token behind the one the failed alternative stopped at
SeekBack_Beyond(position, failedAt) == failedAt + 1

\* a loop that goes on from where the failed alternative stopped
SeekBack_NoSeek(position, failedAt) == failedAt

\* where the cursor stands after a failed alternative: tokens.seek(position)
SeekBack(position, failedAt) == position

\* one attempted alternative: its place in rule.options, the cursor it
\* started from, and how it ended
AltEntry(i, cur, r) ==
  [i |-> i, from |-> cur, to |-> r.pos, st |-> r.st, val |-> r.val, err |-> r.err]

\* a rejection test that does not look at the exit flag
Recoverable_IgnoreExit(r) == r.st = "throw" /\ r.err.kind = "ParseError"

\* a ParseError that the options loop catches and goes on from
Recoverable(r) == r.st = "throw" /\ r.err.kind = "ParseError" /\ ~r.err.exit

\* parseOptionsRule's loop once alternative i, attempted at cursor cur, has
\* been evaluated to r; position is the saved cursor
optionsStep(ctx, options, i, currentType, endToken, position, cur, hasFurthest, furthest, alts, log, fuel, r) ==
  CASE r.st # "throw" ->
         Logged("options", position, r, log \o r.log,
                Append(alts, AltEntry(i, cur, r)))
    [] r.st = "throw" /\ ~Recoverable(r) ->
         Logged("options", position, r, log \o r.log,
                Append(alts, AltEntry(i, cur, r)))
    [] Recoverable(r) /\ i >= Len(options) ->
         Logged("options", position,
                Throw(SeekBack(position, r.pos),
                      optionsFailure(currentType, TRUE,
                                     FurthestAfter(hasFurthest, furthest.err,
                                                   furthest.count, r.err)),
                      <<>>),
                log \o r.log \o <<SeekEv(r.pos, SeekBack(position, r.pos))>>,
                Append(alts, AltEntry(i, cur, r)))
    [] Recoverable(r) /\ i < Len(options) ->
         optionsStep(ctx, options, i + 1, currentType, endToken, position,
                     SeekBack(position, r.pos), TRUE,
                     FurthestAfter(hasFurthest, furthest.err, furthest.count,
                                   r.err),
                     Append(alts, AltEntry(i, cur, r)),
                     log \o r.log \o <<SeekEv(r.pos, SeekBack(position, r.pos))>>,
                     fuel,
                     parseRule(ctx, options[i + 1], currentType, endToken,
                               SeekBack(position, r.pos), fuel - 1))

\* the node a capture rule returns around `parsed`
captureNode(ctx, rule, peek, parsed) ==
  [parsed EXCEPT !.val =
     IF parsed.st # "ok" THEN @
     ELSE IF ctx.debug
     THEN NodeAt(rule.type, parsed.val, peek.line, peek.column)
     ELSE NodeV(rule.type, parsed.val)]

NoFurthest == [err |-> NoErr, count |-> 0]
TypeErr == Err("TypeError", Message("", <<>>, <<>>, ""), FALSE, NoToken)

\* a chain of checks that tests `repeat` before `parse` and `sequence`
Branch_RepeatFirst(ctx, rule, endToken, pos0, pos, fuel) ==
  IF fuel = 0 THEN "diverge"
  ELSE IF Exhausted(ctx.tokens, pos0) THEN "end of input"
  ELSE IF rule.undef THEN "undefined rule"
  ELSE IF rule.isString THEN "keyword"
  ELSE IF rule.capture
  THEN IF Exhausted(ctx.tokens, pos) THEN "capture: no token" ELSE "capture"
  ELSE IF rule.repeat
  THEN IF ~endToken.isString /\ ~endToken.undef THEN "repeat: endToken"
       ELSE "repeat"
  ELSE IF rule.parse # "" THEN "parse"
  ELSE IF rule.hasSeq
  THEN IF Exhausted(ctx.tokens, pos) THEN "sequence: no token"
       ELSE IF rule.sequence = <<>> THEN "sequence: empty"
       ELSE "sequence"
  ELSE IF rule.optional THEN "optional"
  ELSE IF rule.hasOpts
  THEN IF rule.options = <<>> THEN "options: empty" ELSE "options"
  ELSE IF rule.type # "" THEN "type"
  ELSE "none"

\* which branch parseRule takes for a rule when the cursor is at pos0 and,
\* after the comments are skipped, at pos: the chain of checks of parseRule
\* followed by the entry checks of the sub-parser it selects
Branch(ctx, rule, endToken, pos0, pos, fuel) ==
  IF fuel = 0 THEN "diverge"
  ELSE IF Exhausted(ctx.tokens, pos0) THEN "end of input"
  ELSE IF rule.undef THEN "undefined rule"
  ELSE IF rule.isString THEN "keyword"
  ELSE IF rule.capture
  THEN IF Exhausted(ctx.tokens, pos) THEN "capture: no token" ELSE "capture"
  ELSE IF rule.parse # "" THEN "parse"
  ELSE IF rule.hasSeq
  THEN IF Exhausted(ctx.tokens, pos) THEN "sequence: no token"
       ELSE IF rule.sequence = <<>> THEN "sequence: empty"
       ELSE "sequence"
  ELSE IF rule.repeat
  THEN IF ~endToken.isString /\ ~endToken.undef THEN "repeat: endToken"
       ELSE "repeat"
  ELSE IF rule.optional THEN "optional"
  ELSE IF rule.hasOpts
  THEN IF rule.options = <<>> THEN "options: empty" ELSE "options"
  ELSE IF rule.type # "" THEN "type"
  ELSE "none"

\* parseRule with the cursor at pos0; pos is the cursor after the comment skip
dispatch(b, ctx, rule, currentType, endToken, pos0, pos, fuel) ==
  CASE b = "diverge" -> Diverge(pos0, <<>>)
    [] b = "end of input" -> Throw(pos0, ParseError(EndOfInput), <<>>)
    [] b = "undefined rule" -> Throw(pos, TypeErr, <<>>)
    [] b = "keyword" -> parseKeyword(ctx, rule.lit, pos)
    [] b = "capture: no token" -> Throw(pos, TypeErr, <<>>)
    [] b = "capture" ->
         captureNode(ctx, rule, ctx.tokens[pos + 1],
                     parseRule(ctx, [rule EXCEPT !.capture = FALSE],
                               currentType, endToken, pos, fuel - 1))
    [] b = "parse" -> parsePrimitiveRule(ctx, rule, pos)
    [] b = "sequence: no token" -> Throw(pos, ParseError(EndOfInput), <<>>)
    [] b = "sequence: empty" -> Ok(pos, ListV(<<>>), <<>>)
    [] b = "sequence" ->
         sequenceStep(ctx, rule.sequence, 1, currentType, <<>>, <<>>, fuel,
                      parseRule(ctx, rule.sequence[1], currentType,
                                NextRule(rule.sequence, 1), pos, fuel - 1))
    [] b = "repeat: endToken" ->
         Throw(pos, ParseError(Message("Expected a string for endToken",
                                       <<>>, <<>>, "")), <<>>)
    [] b = "repeat" ->
         repeatLoop(ctx, rule, currentType, endToken, pos, <<>>, <<>>, fuel, pos)
    [] b = "optional" ->
         optionalCatch(pos, parseRule(ctx, [rule EXCEPT !.optional = FALSE],
                                      currentType, endToken, pos, fuel - 1))
    [] b = "options: empty" ->
         Logged("options", pos,
                Throw(pos, optionsFailure(currentType, FALSE, NoFurthest), <<>>),
                <<>>, <<>>)
    [] b = "options" ->
         optionsStep(ctx, rule.options, 1, currentType, endToken, pos, pos,
                     FALSE, NoFurthest, <<>>, <<>>, fuel,
                     parseRule(ctx, rule.options[1], currentType, endToken,
                               pos, fuel - 1))
    [] b = "type" ->
         parseRule(ctx, Lookup(ctx.grammar, rule.type), rule.type, endToken,
                   pos, fuel - 1)
    [] b = "none" ->
         Throw(pos, ParseError(Message("No matching rule found",
                                       <<>>, <<>>, "")), <<>>)

parseRule(ctx, rule, currentType, endToken, pos0, fuel) ==
  dispatch(Branch(ctx, rule, endToken, pos0, SkipIgnored(ctx.tokens, pos0), fuel),
           ctx, rule, currentType, endToken, pos0,
           SkipIgnored(ctx.tokens, pos0), fuel)

\* ------------------------------------------------------------------------
\* Words of the sources and the grammars' keyword literals
\* ------------------------------------------------------------------------
Word ==
  [hello |-> <<"h", "e", "l", "l", "o">>,
   HELLO |-> <<"H", "E", "L", "L", "O">>,
   world |-> <<"w", "o", "r", "l", "d">>,
   else |-> <<"e", "l", "s", "e">>,
   seven |-> <<"7">>,
   plus |-> <<"+">>,
   minus |-> <<"-">>,
   star |-> <<"*">>,
   slash |-> <<"/">>,
   percent |-> <<"%">>,
   comment |-> <<"/", "/", "c", NL>>,
   print |-> <<"p", "r", "i", "n", "t">>,
   hi |-> <<QUOTE, "h", "i", QUOTE>>,
   stop |-> <<"s", "t", "o", "p">>,
   dear |-> <<"d", "e", "a", "r">>,
   bob |-> <<"b", "o", "b">>,
   a |-> <<"a">>,
   two |-> <<"2">>,
   lparen |-> <<"(">>,
   rparen |-> <<")">>,
   lbrace |-> <<"{">>,
   rbrace |-> <<"}">>,
   eqeq |-> <<"=", "=">>,
   noteq |-> <<"!", "=">>,
   lt |-> <<"<">>,
   gt |-> <<">">>,
   and |-> <<"a", "n", "d">>,
   or |-> <<"o", "r">>,
   say |-> <<"s", "a", "y">>,
   if |-> <<"i", "f">>,
   then |-> <<"t", "h", "e", "n">>,
   call |-> <<"c", "a", "l", "l">>,
   function |-> <<"f", "u", "n", "c", "t", "i", "o", "n">>,
   repeat |-> <<"r", "e", "p", "e", "a", "t">>,
   when |-> <<"w", "h", "e", "n">>,
   key |-> <<"k", "e", "y">>,
   pressed |-> <<"p", "r", "e", "s", "s", "e", "d">>,
   set |-> <<"s", "e", "t">>,
   to |-> <<"t", "o">>,
   empty |-> <<QUOTE, QUOTE>>,
   zero |-> <<"0">>,
   gap |-> <<NL, NL, NL, NL, NL, NL, NL, NL, NL>>]

\* ------------------------------------------------------------------------
\* Grammars
\* ------------------------------------------------------------------------
Repeat(r) == [r EXCEPT !.repeat = TRUE]
Optional(r) == [r EXCEPT !.optional = TRUE]

\* lib/_tests_/helloWorld.test.js
HelloGrammar ==
  ("hello" :> Capture("hello", Seq_(<<Kw(Word.hello), Ref("noun")>>)))
  @@ ("noun" :> Capture("noun", Terminal("value")))

\* README.md, "Define a Grammar"
ReadmeGrammar ==
  ("SCRIPT" :> Repeat(Ref("STATEMENT")))
  @@ ("STATEMENT" :> Opts(<<Capture("PRINT", Seq_(<<Kw(Word.print), Ref("STRING")>>))>>))
  @@ ("STRING" :> Capture("STRING", Terminal("STRING")))

\* the README grammar with one of the "other statement rules": a statement
\* made of a keyword alone
CommandGrammar ==
  ("SCRIPT" :> Repeat(Ref("STATEMENT")))
  @@ ("STATEMENT" :> Opts(<<Capture("PRINT", Seq_(<<Kw(Word.print), Ref("STRING")>>)),
                        Kw(Word.stop)>>))
  @@ ("STRING" :> Capture("STRING", Terminal("STRING")))

\* a greeting whose name is optional, and one with an optional inline
\* sequence before the name
OptionalGrammar ==
  ("greet" :> Capture("greet", Seq_(<<Kw(Word.hello), Optional(Ref("name"))>>)))
  @@ ("greetDear" :> Capture("greetDear",
                         Seq_(<<Kw(Word.hello), Optional(Seq_(<<Kw(Word.dear)>>)),
                                Ref("name")>>)))
  @@ ("name" :> Capture("name", Terminal("IDENTIFIER")))

\* greetings with a list of names: greetAll with an optional reference to
\* the repeat rule `names`, greetMany with a reference to `name` that is
\* marked repeat and optional
NamesGrammar ==
  ("greetAll" :> Capture("greetAll", Seq_(<<Kw(Word.hello), Optional(Ref("names"))>>)))
  @@ ("greetMany" :> Capture("greetMany",
                         Seq_(<<Kw(Word.hello), Repeat(Optional(Ref("name")))>>)))
  @@ ("names" :> Repeat(Ref("name")))
  @@ ("name" :> Capture("name", Terminal("IDENTIFIER")))

\* a sequence whose children are terminals that the rule does not capture:
\* the keyword `print`, a string and a number, with grammar.ts's callbacks
ValuesGrammar ==
  ("pair" :> Seq_(<<Kw(Word.print), Terminal("STRING"), Terminal("NUMBER")>>))

\* src/grammar.ts (the grammar of the demo application)
BinaryRule(type, left, op, right) ==
  Capture(type, Seq_(<<Ref(left), Kw(op), Ref(right)>>))
\* a MULTIPLICATIVE whose right operands are ADDITIVE
MultiplicativeRule_LooseRight ==
  Opts(<<BinaryRule("MULTIPLY", "VALUE", Word.star, "ADDITIVE"),
         BinaryRule("DIVIDE", "VALUE", Word.slash, "ADDITIVE"),
         BinaryRule("MODULO", "VALUE", Word.percent, "ADDITIVE"),
         Ref("VALUE")>>)

\* grammar.MULTIPLICATIVE
MultiplicativeRule ==
  Opts(<<BinaryRule("MULTIPLY", "VALUE", Word.star, "MULTIPLICATIVE"),
         BinaryRule("DIVIDE", "VALUE", Word.slash, "MULTIPLICATIVE"),
         BinaryRule("MODULO", "VALUE", Word.percent, "MULTIPLICATIVE"),
         Ref("VALUE")>>)

AppGrammar ==
  ("_IGNORE" :> Opts(<<Repeat(Ref("COMMENT")), Repeat(Ref("WHITESPACE"))>>))
  @@ ("LITERAL" :> Opts(<<Ref("STRING"), Ref("NUMBER")>>))
  @@ ("STRING" :> Capture("", Terminal("STRING")))
  @@ ("NUMBER" :> Capture("", Terminal("NUMBER")))
  @@ ("IDENTIFIER" :> Capture("", Terminal("IDENTIFIER")))
  @@ ("EXPRESSION" :> Ref("COMPARISON"))
  @@ ("LOGICAL" :> Opts(<<BinaryRule("AND", "LOGICAL", Word.and, "LOGICAL"),
                      BinaryRule("OR", "LOGICAL", Word.or, "LOGICAL"),
                      Ref("COMPARISON")>>))
  @@ ("COMPARISON" :> Opts(<<BinaryRule("EQUALS", "ADDITIVE", Word.eqeq, "COMPARISON"),
                         BinaryRule("NOT_EQUALS", "ADDITIVE", Word.noteq, "COMPARISON"),
                         BinaryRule("LESS_THAN", "ADDITIVE", Word.lt, "COMPARISON"),
                         BinaryRule("GREATER_THAN", "ADDITIVE", Word.gt, "COMPARISON"),
                         Ref("ADDITIVE")>>))
  @@ ("ADDITIVE" :> Opts(<<BinaryRule("ADD", "MULTIPLICATIVE", Word.plus, "ADDITIVE"),
                       BinaryRule("SUBTRACT", "MULTIPLICATIVE", Word.minus, "ADDITIVE"),
                       Ref("MULTIPLICATIVE")>>))
  @@ ("MULTIPLICATIVE" :> MultiplicativeRule)
  @@ ("VALUE" :> Opts(<<Ref("LITERAL"), Ref("IDENTIFIER"), Ref("CALL"), Ref("GROUP")>>))
  @@ ("GROUP" :> Seq_(<<Kw(Word.lparen), Ref("EXPRESSION"), Kw(Word.rparen)>>))
  @@ ("ARGUMENTS" :> Seq_(<<Kw(Word.lparen), Repeat(Ref("EXPRESSION")), Kw(Word.rparen)>>))
  @@ ("PARAMETERS" :> Seq_(<<Kw(Word.lparen), Repeat(Ref("IDENTIFIER")), Kw(Word.rparen)>>))
  @@ ("SCRIPT" :> Repeat(Ref("STATEMENT")))
  @@ ("BLOCK" :> Opts(<<Seq_(<<Kw(Word.lbrace), Ref("SCRIPT"), Kw(Word.rbrace)>>),
                    Ref("STATEMENT")>>))
  @@ ("STATEMENT" :> Opts(<<Ref("SAY"), Ref("IF_ELSE"), Ref("IF"), Ref("CALL"),
                        Ref("FUNCTION"), Ref("REPEAT"), Ref("WHEN_KEY_PRESSED"),
                        Ref("SET")>>))
  @@ ("SAY" :> Capture("SAY", Seq_(<<Kw(Word.say), Ref("EXPRESSION")>>)))
  @@ ("IF_ELSE" :> Capture("IF_ELSE",
                       Seq_(<<Kw(Word.if), Ref("EXPRESSION"), Kw(Word.then), Ref("BLOCK"),
                              Kw(Word.else),
                              Opts(<<Ref("IF_ELSE"), Ref("IF"), Ref("BLOCK")>>)>>)))
  @@ ("IF" :> Capture("IF", Seq_(<<Kw(Word.if), Ref("EXPRESSION"), Kw(Word.then),
                               Ref("BLOCK")>>)))
  @@ ("CALL" :> Capture("CALL", Seq_(<<Kw(Word.call), Ref("IDENTIFIER"), Ref("ARGUMENTS"),
                                   Ref("BLOCK")>>)))
  @@ ("FUNCTION" :> Capture("FUNCTION",
                        Seq_(<<Kw(Word.function), Ref("IDENTIFIER"), Ref("PARAMETERS"),
                               Ref("BLOCK")>>)))
  @@ ("REPEAT" :> Capture("REPEAT", Seq_(<<Kw(Word.repeat), Ref("EXPRESSION"),
                                       Ref("SCRIPT")>>)))
  @@ ("WHEN_KEY_PRESSED" :> Capture("WHEN_KEY_PRESSED",
                                Seq_(<<Kw(Word.when), Ref("STRING"), Kw(Word.key),
                                       Kw(Word.pressed), Ref("BLOCK")>>)))
  @@ ("SET" :> Capture("SET", Seq_(<<Kw(Word.set), Ref("IDENTIFIER"), Kw(Word.to),
                                 Ref("EXPRESSION")>>)))

\* "App" and "Script" are both grammar.ts: its expressions with the entry
\* rule ADDITIVE, its statements with the entry rule SCRIPT
GrammarNames == {"Hello", "Readme", "Command", "Optional", "Names", "Values", "App", "Script"}
GrammarOf(name) ==
  CASE name = "Hello" -> HelloGrammar
    [] name = "Readme" -> ReadmeGrammar
    [] name = "Command" -> CommandGrammar
    [] name = "Optional" -> OptionalGrammar
    [] name = "Names" -> NamesGrammar
    [] name = "Values" -> ValuesGrammar
    [] name = "App" -> AppGrammar
    [] name = "Script" -> AppGrammar

\* ------------------------------------------------------------------------
\* Sources handed to parse
\* ------------------------------------------------------------------------
MaxWords == 4
MaxTerms == 3

RECURSIVE Join(_)
\* the words of a source, separated by single spaces
Join(ws) ==
  IF ws = <<>> THEN <<>>
  ELSE IF Len(ws) = 1 THEN ws[1]
  ELSE ws[1] \o <<" ">> \o Join(Tail(ws))

RECURSIVE Split(_)
\* the words of a source made by Join
Split(src) ==
  IF src = <<>> THEN <<>>
  ELSE LET spaces == {i \in DOMAIN src : src[i] = " "}
           e == IF spaces = {} THEN Len(src) + 1
                ELSE CHOOSE i \in spaces : \A j \in spaces : i <= j
       IN <<SubSeq(src, 1, e - 1)>> \o Split(SubSeq(src, e + 1, Len(src)))

WordLists(V, n) == UNION {[1..k -> V] : k \in 0..n}

Operands == {Word.a, Word.two}
Operators == {Word.plus, Word.minus, Word.star, Word.slash, Word.percent}
RECURSIVE Expressions(_)
\* operand (operator operand)*, with k operands
Expressions(k) ==
  IF k = 1 THEN {<<o>> : o \in Operands}
  ELSE {e \o <<p, o>> : e \in Expressions(k - 1), p \in Operators, o \in Operands}

Vocabulary(g) ==
  CASE g = "Hello" -> {Word.hello, Word.HELLO, Word.world, Word.seven, Word.comment}
    [] g = "Readme" -> {Word.print, Word.hi, Word.a, Word.comment}
    [] g = "Command" -> {Word.print, Word.hi, Word.stop, Word.comment}
    [] g = "Optional" -> {Word.hello, Word.dear, Word.bob, Word.comment}
    [] g = "Names" -> {Word.hello, Word.bob, Word.seven}
    [] g = "Values" -> {Word.print, Word.empty, Word.zero, Word.seven}
    [] g = "App" -> {}
    [] g = "Script" -> {}

\* sources of the Readme grammar that begin with nine empty lines
Tall == {Join(<<Word.gap>> \o ws) : ws \in WordLists(Vocabulary("Readme"), MaxWords - 2)}

\* statements of grammar.ts, whole and broken
Scripts ==
  {<<Word.say>>,
   <<Word.say, Word.a>>,
   <<Word.say, Word.a, Word.say, Word.two>>,
   <<Word.if, Word.a, Word.then, Word.lbrace, Word.rbrace>>,
   <<Word.if, Word.a, Word.then, Word.say, Word.two>>,
   <<Word.if, Word.a, Word.then, Word.lbrace, Word.rbrace, Word.else,
     Word.lbrace, Word.rbrace>>,
   <<Word.if, Word.a, Word.then, Word.lbrace, Word.rbrace, Word.else, Word.two>>,
   <<Word.if, Word.a, Word.then, Word.lbrace, Word.two, Word.rbrace>>,
   <<Word.if, Word.a, Word.then, Word.lbrace, Word.say, Word.a, Word.rbrace>>,
   <<Word.if, Word.a, Word.then, Word.lbrace, Word.say, Word.a, Word.comment,
     Word.rbrace>>,
   <<Word.if, Word.a, Word.two>>,
   <<Word.set, Word.a, Word.two>>}

Sources(g) ==
  IF g = "App"
  THEN {Join(e) : e \in UNION {Expressions(k) : k \in 1..MaxTerms}}
  ELSE IF g = "Script" THEN {Join(ws) : ws \in Scripts}
  ELSE {Join(ws) : ws \in WordLists(Vocabulary(g), MaxWords)}
       \cup (IF g = "Readme" THEN Tall ELSE {})

Entries(g) ==
  CASE g = "Hello" -> {"hello"}
    [] g = "Readme" -> {"SCRIPT"}
    [] g = "Command" -> {"SCRIPT"}
    [] g = "Optional" -> {"greet", "greetDear"}
    [] g = "Names" -> {"greetAll", "greetMany"}
    [] g = "Values" -> {"pair"}
    [] g = "App" -> {"ADDITIVE"}
    [] g = "Script" -> {"SCRIPT", "STATEMENT"}

\* ------------------------------------------------------------------------
\* Parser.parse and the state machine
\* ------------------------------------------------------------------------
\* parse(program, rule) on a parser built with grammar G: what it returns or
\* throws, the token stream it leaves in this.tokens and the stream's cursor
\* a parse that demands the whole stream be consumed
parseResult_RequireEnd(lx, r) ==
  IF ~lx.ok
  THEN [st |-> "throw", kind |-> "LexerError", lexed |-> FALSE,
        tokens |-> <<>>, pos |-> 0, val |-> Nil, err |-> NoErr, log |-> <<>>]
  ELSE IF r.st = "ok" /\ r.pos < Len(lx.tokens)
  THEN [st |-> "throw", kind |-> "ParseError", lexed |-> TRUE,
        tokens |-> lx.tokens, pos |-> r.pos, val |-> Nil,
        err |-> ParseErrorAt(Message("Unexpected token", <<>>,
                                     lx.tokens[r.pos + 1].value, ""),
                             lx.tokens[r.pos + 1]),
        log |-> r.log]
  ELSE [st |-> r.st, kind |-> r.err.kind, lexed |-> TRUE, tokens |-> lx.tokens,
        pos |-> r.pos, val |-> r.val, err |-> r.err, log |-> r.log]

parseResult(lx, r) ==
  IF ~lx.ok
  THEN [st |-> "throw", kind |-> "LexerError", lexed |-> FALSE,
        tokens |-> <<>>, pos |-> 0, val |-> Nil, err |-> NoErr, log |-> <<>>]
  ELSE [st |-> r.st, kind |-> r.err.kind, lexed |-> TRUE,
        tokens |-> lx.tokens, pos |-> r.pos, val |-> r.val, err |-> r.err,
        log |-> r.log]

parseTokens(G, dbg, rule, lx) ==
  parseResult(lx, parseRule([grammar |-> G, debug |-> dbg, tokens |-> lx.tokens],
                            Lookup(G, rule), rule, Undefined, 0, MaxDepth))

\* Number.prototype.toString of a natural number
RECURSIVE toString(_)
toString(n) ==
  IF n < 10 THEN <<DigitChars[n + 1]>>
  ELSE toString(n \div 10) \o <<DigitChars[(n % 10) + 1]>>

\* " ".repeat(n)
repeat(c, n) == [i \in 1..n |-> c]

\* s.indexOf(c)
indexOf(s, c) ==
  IF c \notin Range(s) THEN 0 - 1
  ELSE (CHOOSE i \in DOMAIN s : s[i] = c /\ \A j \in 1..(i - 1) : s[j] # c) - 1

RECURSIVE splitLines(_)
\* text.split("\n")
splitLines(text) ==
  IF NL \notin Range(text) THEN <<text>>
  ELSE <<SubSeq(text, 1, indexOf(text, NL))>>
       \o splitLines(SubSeq(text, indexOf(text, NL) + 2, Len(text)))

RECURSIVE joinLines(_)
\* lines.join("\n")
joinLines(lines) ==
  IF lines = <<>> THEN <<>>
  ELSE IF Len(lines) = 1 THEN lines[1]
  ELSE lines[1] \o <<NL>> \o joinLines(Tail(lines))

\* `${prefix}${i + 1} | ` of getLinesOfCode, for the line numbered i
gutter(i, end) ==
  repeat(" ", IF Len(toString(end)) > Len(toString(i))
              THEN Len(toString(end)) - Len(toString(i)) ELSE 0)
  \o toString(i) \o <<" ", "|", " ">>

\* TokenStreamImpl.getLinesOfCode(start, end) on the stream's text; end = 0
\* stands for a missing or zero end
getLinesOfCode(source, start0, end0) ==
  LET start == IF start0 < 1 THEN 1 ELSE start0
      end == IF end0 = 0 THEN start ELSE end0
      lines == splitLines(source)
      mapped == [i \in 1..Len(lines) |-> gutter(i, end) \o lines[i]]
  IN joinLines(SubSeq(mapped, start, IF end < Len(lines) THEN end ELSE Len(lines)))

\* a caret indented by the token's column alone
caretLine_NoGutter(lineOfCode, column) == repeat(" ", column - 1) \o <<"^">>

\* `" ".repeat(column + token.column - 1) + "^"`, column being
\* lineOfCode.indexOf("|") + 2
caretLine(lineOfCode, column) ==
  repeat(" ", indexOf(lineOfCode, "|") + 2 + column - 1) \o <<"^">>

AtLine == <<" ", "a", "t", " ", "l", "i", "n", "e", " ">>
UndefinedText == <<"u", "n", "d", "e", "f", "i", "n", "e", "d">>

\* ` at line ${token.line}:${token.column}`, or "" without a token
location(e) ==
  IF e.hasTok
  THEN AtLine \o toString(e.tok.line) \o <<":">> \o toString(e.tok.column)
  ELSE <<>>

\* lineOfCode of the catch block: the excerpt and the caret line when the
\* error has a token, the text of `undefined` in the template otherwise
lineOfCode(source, e) ==
  IF e.hasTok
  THEN getLinesOfCode(source, e.tok.line - 2, e.tok.line) \o <<NL>>
       \o caretLine(getLinesOfCode(source, e.tok.line - 2, e.tok.line),
                    e.tok.column)
  ELSE UndefinedText

\* what the catch block appends to e.message
appended(source, e) ==
  location(e) \o <<NL, NL>> \o lineOfCode(source, e) \o <<NL>>

\* the catch block of parse around the result r: a ParseError is rethrown
\* with its message extended, anything else as it is; the message is kept
\* as the error's own message (base) and the characters appended to it
rethrow(source, r) ==
  [message |-> [base |-> r.err.msg,
                tail |-> IF r.st = "throw" /\ r.kind = "ParseError"
                         THEN appended(source, r.err) ELSE <<>>]] @@ r

parse(G, dbg, src, rule) ==
  rethrow(src, parseTokens(G, dbg, rule, lex(src, findKeywords(G))))

VARIABLES
  grammar,    \* name of the grammar the Parser was constructed with
  debug,      \* Parser.debug
  tokens,     \* TokenStreamImpl.tokens of this.tokens
  text,       \* TokenStreamImpl.text
  position_,  \* TokenStreamImpl.position_
  program,    \* the source of the parse call
  entry,      \* the entry rule of the parse call
  outcome     \* what the call returned or threw

vars == <<grammar, debug, tokens, text, position_, program, entry, outcome>>

NoOutcome == [st |-> "none", kind |-> "none", val |-> Nil, err |-> NoErr,
              message |-> [base |-> NoErr.msg, tail |-> <<>>], log |-> <<>>]

\* new Parser(grammar, debug): this.tokens = lex("")
Init ==
  /\ grammar \in GrammarNames
  /\ debug \in BOOLEAN
  /\ tokens = <<>>
  /\ text = <<>>
  /\ position_ = 0
  /\ program = <<>>
  /\ entry = ""
  /\ outcome = NoOutcome

\* the state parser.parse(src, rule) leaves, r being its result
Returned(src, rule, r) ==
  /\ tokens' = IF r.lexed THEN r.tokens ELSE tokens
  /\ text' = IF r.lexed THEN src ELSE text
  /\ position_' = IF r.lexed THEN r.pos ELSE position_
  /\ outcome' = [st |-> r.st, kind |-> r.kind, val |-> r.val,
                 err |-> r.err, message |-> r.message, log |-> r.log]
  /\ program' = src
  /\ entry' = rule
  /\ UNCHANGED <<grammar, debug>>

\* parser.parse(src, rule)
Parse(src, rule) ==
  /\ outcome.st = "none"
  /\ Returned(src, rule, parse(GrammarOf(grammar), debug, src, rule))

\* a program calls parse once on a fresh parser, with any source and entry rule
Next ==
  /\ outcome.st = "none"
  /\ \E src \in Sources(grammar), rule \in Entries(grammar) : Parse(src, rule)

Spec == Init /\ [][Next]_vars

\* ------------------------------------------------------------------------
\* lex called on its own
\* ------------------------------------------------------------------------
MaxChars == 4
LexAlphabet == {QUOTE, NL, " ", "a", "/", "1", "-", "+"}
Texts == UNION {[1..n -> LexAlphabet] : n \in 0..MaxChars}

\* `Unterminated string literal at line ${line}:${startColumn}`
LexerError(lx) ==
  [base |-> Message("Unterminated string literal", <<>>, <<>>, ""),
   tail |-> AtLine \o toString(lx.line) \o <<":">> \o toString(lx.column)]

\* lex(input, keywords) with the keywords of the grammar
Lex(input) ==
  LET lx == lex(input, findKeywords(GrammarOf(grammar)))
  IN /\ outcome.st = "none"
     /\ program' = input
     /\ tokens' = IF lx.ok THEN lx.tokens ELSE tokens
     /\ text' = IF lx.ok THEN input ELSE text
     /\ outcome' = IF lx.ok THEN [NoOutcome EXCEPT !.st = "ok"]
                   ELSE [NoOutcome EXCEPT !.st = "throw", !.kind = "LexerError",
                                          !.message = LexerError(lx)]
     /\ UNCHANGED <<grammar, debug, position_, entry>>

LexerInit == Init /\ grammar = "Hello" /\ ~debug
LexerNext ==
  /\ outcome.st = "none"
  /\ \E input \in Texts : Lex(input)
LexSpec == LexerInit /\ [][LexerNext]_vars

\* ------------------------------------------------------------------------
\* Properties
\* ------------------------------------------------------------------------
\* parse has returned or thrown
Done == outcome.st # "none"
\* the words the source was written with
Words == Split(program)
IsComment(w) == w = Word.comment

RECURSIVE Plain(_)
\* a CST without the line and column that debug mode adds to its nodes
Plain(v) ==
  CASE v.k = "node" -> NodeV(v.type, Plain(v.value))
    [] v.k = "list" -> ListV([i \in DOMAIN v.items |-> Plain(v.items[i])])
    [] OTHER -> v

\* C1: with the Hello grammar and debug off, parse("hello W", "hello") for a
\* single-token word W returns exactly {type: "hello", value: {type: "noun",
\* value: W}}: the keyword adds nothing and the one-element sequence result
\* is unwrapped into the capture node.
HelloWord ==
  /\ grammar = "Hello" /\ ~debug /\ entry = "hello" /\ Done
  /\ Len(Words) = 2 /\ Words[1] = Word.hello /\ ~IsComment(Words[2])
C1_HelloNode ==
  HelloWord =>
    /\ outcome.st = "ok"
    /\ outcome.val = NodeV("hello", NodeV("noun", StrV(Words[2])))
C1_Witness == HelloWord /\ Words[2] = Word.world /\ outcome.st = "ok"

\* C2: parse makes no end-of-input check: once the entry rule has matched a
\* prefix of the token stream (here `hello` and one more token of the Hello
\* grammar), parse returns the CST of that prefix with the cursor stopped
\* right after it, whatever tokens follow, and the CST holds none of them.
HelloPrefix ==
  /\ grammar = "Hello" /\ Done /\ Len(tokens) >= 2
  /\ toLowerCase(tokens[1].value) = Word.hello
  /\ tokens[2].type # "comment"
HelloCST(keyword, noun) ==
  IF debug
  THEN NodeV("hello", ListV(<<NodeV("KEYWORD", StrV(keyword)),
                             NodeV("noun", StrV(noun))>>))
  ELSE NodeV("hello", NodeV("noun", StrV(noun)))
C2_PrefixOnly ==
  HelloPrefix =>
    /\ outcome.st = "ok"
    /\ position_ = 2
    /\ Plain(outcome.val) = HelloCST(tokens[1].value, tokens[2].value)
C2_Witness ==
  HelloPrefix /\ Len(tokens) > 2 /\ outcome.st = "ok" /\ position_ < Len(tokens)

\* The statements of a source of the Readme and Command grammars: `print`
\* followed by a string (values), and the bare keyword `stop` of the Command
\* grammar (bare); comments are skipped; ok tells that the source is nothing
\* but statements.
DropComments(ws) == SelectSeq(ws, LAMBDA w : ~IsComment(w))
RECURSIVE Statements(_, _, _)
Statements(ws, values, bare) ==
  IF ws = <<>> THEN [ok |-> TRUE, values |-> values, bare |-> bare]
  ELSE IF ws[1] = Word.stop /\ grammar = "Command"
  THEN Statements(Tail(ws), values, bare + 1)
  ELSE IF ws[1] = Word.print /\ Len(ws) >= 2 /\ ws[2] = Word.hi
  THEN Statements(Tail(Tail(ws)), values + 1, bare)
  ELSE [ok |-> FALSE, values |-> values, bare |-> bare]
StatementList ==
  /\ grammar \in {"Readme", "Command"} /\ entry = "SCRIPT"
  /\ outcome.st = "ok"
  /\ Statements(DropComments(Words), 0, 0).ok
ValueCount == Statements(DropComments(Words), 0, 0).values
BareCount == Statements(DropComments(Words), 0, 0).bare

Uncommented ==
  parse(GrammarOf(grammar), debug, Join(DropComments(Words)), entry)
\* the tokens handed to a keyword match or a terminal callback
TokensUsed ==
  {outcome.log[i].tok : i \in {j \in DOMAIN outcome.log :
                                 outcome.log[j].op \in {"keyword", "terminal"}}}

\* C4: comments are transparent: a source with `//` line comments before,
\* between or after its tokens parses to the CST of the source without them,
\* and succeeds if that one does; no comment token is handed to a keyword
\* match or a terminal callback.
C4_CommentsTransparent ==
  /\ \A t \in TokensUsed : t.type # "comment"
  /\ (Done /\ Uncommented.st = "ok") =>
       /\ outcome.st = "ok"
       /\ Plain(outcome.val) = Plain(Uncommented.val)

\* the parse of the source with its first word written `hello`
UpperKeyword == grammar = "Hello" /\ Done /\ Words # <<>> /\ Words[1] = Word.HELLO
LowerCased == parse(HelloGrammar, debug, Join(<<Word.hello>> \o Tail(Words)), entry)

\* C5 as stated: for a grammar whose keyword literal is "hello", a source and
\* the same source with the keyword in another letter case yield identical
\* CSTs.
C5_CaseInsensitive ==
  UpperKeyword =>
    outcome.st = LowerCased.st /\ outcome.val = LowerCased.val

\* C5 amended: with debug off the two sources yield identical CSTs (in debug
\* mode the KEYWORD node carries the keyword as the source spells it).
C5_CaseInsensitiveDebugOff ==
  (UpperKeyword /\ ~debug) =>
    outcome.st = LowerCased.st /\ outcome.val = LowerCased.val
C5_Witness ==
  /\ UpperKeyword /\ ~debug /\ outcome.st = "ok"
  /\ outcome.val = NodeV("hello", NodeV("noun", StrV(Word.world)))

\* C6: an optional rule never fails its parent: `greet` is the keyword
\* `hello` followed by an optional name, so every source that starts with
\* `hello` parses, at the end of input too.
C6_OptionalNeverFails ==
  (/\ grammar = "Optional" /\ entry = "greet" /\ Done
   /\ tokens # <<>> /\ tokens[1].value = Word.hello)
  => outcome.st = "ok"

\* C7: a repeat rule matches zero occurrences: a source without any token
\* but comments, the empty source included, parses with a repeat entry rule
\* to the empty list.
C7_RepeatZeroOrMore ==
  (/\ grammar \in {"Readme", "Command"} /\ entry = "SCRIPT" /\ Done
   /\ \A i \in DOMAIN tokens : tokens[i].type = "comment")
  => outcome.st = "ok" /\ outcome.val = ListV(<<>>)

\* the evaluations of options rules during the parse
OptionsEvents == {i \in DOMAIN outcome.log : outcome.log[i].op = "options"}
OrderedChoice(e) ==
  /\ \A k \in DOMAIN e.alts :
       /\ e.alts[k].i = k
       /\ e.alts[k].from = e.from
       /\ k < Len(e.alts) => e.alts[k].st = "throw"
  /\ e.st = "ok" =>
       /\ e.alts # <<>>
       /\ e.alts[Len(e.alts)].st = "ok"
       /\ e.val = e.alts[Len(e.alts)].val
       /\ e.to = e.alts[Len(e.alts)].to

\* C8: alternation is ordered choice: an options rule attempts its
\* alternatives in list order, each from the same saved cursor, and returns
\* the result of the first that succeeds, attempting none after it.
C8_OrderedChoice == \A i \in OptionsEvents : OrderedChoice(outcome.log[i])
C8_Witness ==
  /\ outcome.st = "ok"
  /\ \E i \in OptionsEvents :
       LET e == outcome.log[i]
       IN /\ e.st = "ok" /\ Len(e.alts) >= 2
          /\ e.alts[1].to > e.from
          /\ e.alts[Len(e.alts)].to > e.from

\* the CST of an arithmetic source by precedence: an additive operator
\* splits the source at its first occurrence, a multiplicative one splits
\* what lies between additive operators
OperandCST(w) ==
  IF IsDigit(w[1]) THEN NodeV("", NumberOf(w)) ELSE NodeV("", StrV(w))
OperatorType(w) ==
  CASE w = Word.plus -> "ADD" [] w = Word.minus -> "SUBTRACT"
    [] w = Word.star -> "MULTIPLY" [] w = Word.slash -> "DIVIDE"
    [] w = Word.percent -> "MODULO"
BinaryCST(op, left, right) ==
  NodeV(OperatorType(op),
        ListV(IF debug THEN <<left, NodeV("KEYWORD", StrV(op)), right>>
              ELSE <<left, right>>))
Additive(ws) == {i \in DOMAIN ws : ws[i] \in {Word.plus, Word.minus}}
RECURSIVE ProductCST(_)
ProductCST(ws) ==
  IF Len(ws) = 1 THEN OperandCST(ws[1])
  ELSE BinaryCST(ws[2], OperandCST(ws[1]), ProductCST(Tail(Tail(ws))))
RECURSIVE SumCST(_)
SumCST(ws) ==
  IF Additive(ws) = {} THEN ProductCST(ws)
  ELSE LET i == CHOOSE j \in Additive(ws) : \A k \in Additive(ws) : j <= k
       IN BinaryCST(ws[i], ProductCST(SubSeq(ws, 1, i - 1)),
                    SumCST(SubSeq(ws, i + 1, Len(ws))))

\* C9: with the right-recursive arithmetic grammar, `*`, `/` and `%` bind
\* tighter than `+` and `-`: `a + b * c` parses to an ADD node of a and the
\* MULTIPLY node of b and c, and every source of operands and operators to
\* the CST its precedence gives.
Arithmetic == grammar = "App" /\ entry = "ADDITIVE" /\ Done
C9_Precedence ==
  Arithmetic =>
    /\ outcome.st = "ok"
    /\ position_ = Len(tokens)
    /\ Plain(outcome.val) = SumCST(Words)
C9_Witness ==
  /\ Arithmetic /\ ~debug
  /\ Words = <<Word.a, Word.plus, Word.two, Word.star, Word.a>>
  /\ outcome.val =
       NodeV("ADD", ListV(<<NodeV("", StrV(Word.a)),
                            NodeV("MULTIPLY",
                                  ListV(<<NodeV("", NumberOf(Word.two)),
                                          NodeV("", StrV(Word.a))>>))>>))

\* C10: lexer round trip: for a source a grammar accepts, the values of the
\* tokens that getTokens() returns, concatenated, are the source.
TokenValues == Concat([i \in DOMAIN tokens |-> tokens[i].value])
C10_RoundTrip == (Done /\ outcome.st = "ok") => TokenValues = program

\* a ParseError with a token has escaped the entry rule
ErrorAtToken ==
  Done /\ outcome.st = "throw" /\ outcome.kind = "ParseError" /\ outcome.err.hasTok
\* the characters of line n of the source (n counted from 1)
LineText(n) ==
  LET breaks == {i \in DOMAIN program : program[i] = NL}
      nth(k) == CHOOSE i \in breaks : Cardinality({j \in breaks : j <= i}) = k
      first == IF n = 1 THEN 1 ELSE nth(n - 1) + 1
      last == IF Cardinality(breaks) >= n THEN nth(n) - 1 ELSE Len(program)
  IN SubSeq(program, first, last)
\* line n as the excerpt of an error at line L shows it
ExcerptLine(n, L) ==
  repeat(" ", Len(toString(L)) - Len(toString(n))) \o toString(n)
  \o <<" ", "|", " ">> \o LineText(n)
Excerpt(L) ==
  LET first == IF L > 2 THEN L - 2 ELSE 1
  IN joinLines([k \in 1..(L - first + 1) |-> ExcerptLine(first + k - 1, L)])

\* C11: a ParseError with a token at line L, column C that escapes the entry
\* rule is rethrown with its message followed by ` at line L:C`, a blank
\* line, the source lines max(1, L-2)..L, each behind a gutter `N | ` with N
\* right-aligned to the digits of L, and a last line with a caret under
\* column C of line L (gutter length + C - 1 spaces before it).
C11_ErrorReport ==
  ErrorAtToken =>
    LET L == outcome.err.tok.line
        C == outcome.err.tok.column
    IN /\ outcome.message.base = outcome.err.msg
       /\ outcome.message.tail =
            AtLine \o toString(L) \o <<":">> \o toString(C) \o <<NL, NL>>
            \o Excerpt(L) \o <<NL>>
            \o repeat(" ", Len(toString(L)) + 3 + C - 1) \o <<"^", NL>>
C11_Witness ==
  /\ ErrorAtToken /\ outcome.err.tok.line >= 10 /\ outcome.err.tok.column > 1
  /\ outcome.err.msg.id = "Expected a string literal"


\* C12: a ParseError without a token (the end-of-input error of parseRule,
\* for one) that escapes the entry rule reaches the caller with its bare
\* message, nothing appended.
C12_BareMessage ==
  (Done /\ outcome.st = "throw" /\ outcome.kind = "ParseError" /\ ~outcome.err.hasTok)
  => outcome.message.tail = <<>>

\* sub occurs in s
Contains(s, sub) ==
  \E i \in 0..(Len(s) - Len(sub)) : SubSeq(s, i + 1, i + Len(sub)) = sub
\* parse of the statement source ws has returned or thrown
Script(ws) == grammar = "Script" /\ Done /\ program = Join(ws)

\* C13: with grammar.ts's `say <EXPRESSION>` under the repeat entry SCRIPT,
\* the source `say` raises a ParseError whose message has `Unexpected end of
\* input` or `Expected EXPRESSION`, reports line 1 and shows the excerpt
\* `1 | say`.
C13_SayReport ==
  (Script(<<Word.say>>) /\ entry = "SCRIPT") =>
    /\ outcome.st = "throw" /\ outcome.kind = "ParseError"
    /\ \/ outcome.message.base.id = "Unexpected end of input"
       \/ /\ outcome.message.base.id = "Expected type but got"
          /\ outcome.message.base.type = "EXPRESSION"
    /\ Contains(outcome.message.tail, AtLine \o <<"1", ":">>)
    /\ Contains(outcome.message.tail, <<"1", " ", "|", " ">> \o Word.say)

\* C14: `if a then { } else 2`, where `2` is no BLOCK, surfaces the error of
\* the IF_ELSE alternative at the token `2`: the parse neither succeeds nor
\* reports an error at `else`.
C14_FurthestError ==
  Script(<<Word.if, Word.a, Word.then, Word.lbrace, Word.rbrace, Word.else, Word.two>>)
  => /\ outcome.st = "throw" /\ outcome.kind = "ParseError"
     /\ outcome.err.hasTok /\ outcome.err.tok.value = Word.two

\* C15: every parsing failure that reaches the caller of parse is a
\* ParseError (a lexing failure a LexerError); when the entry rule needs a
\* token (it is no repeat) and the stream holds nothing but comments, so that
\* it is exhausted once they are skipped, the failure is
\* ParseError("Unexpected end of input"): never another exception type,
\* never a normal return.
C15_OnlyParseErrors ==
  /\ (Done /\ outcome.st = "throw") => outcome.kind \in {"ParseError", "LexerError"}
  /\ (/\ Done /\ ~Lookup(GrammarOf(grammar), entry).repeat
      /\ \A i \in DOMAIN tokens : tokens[i].type = "comment") =>
       /\ outcome.st = "throw" /\ outcome.kind = "ParseError"
       /\ outcome.err.msg = EndOfInput

RECURSIVE Unclosed(_, _, _, _)
\* the place (from 1) of the quote that opens a string literal which the
\* source s never closes, 0 if there is none; the scan is at place i, in
\* mode "code", "comment" or "string", the latter opened at place open
Unclosed(s, i, mode, open) ==
  IF i > Len(s) THEN (IF mode = "string" THEN open ELSE 0)
  ELSE IF mode = "string"
  THEN Unclosed(s, i + 1, IF s[i] = QUOTE THEN "code" ELSE "string", open)
  ELSE IF mode = "comment"
  THEN Unclosed(s, i + 1, IF s[i] = NL THEN "code" ELSE "comment", open)
  ELSE IF s[i] = QUOTE THEN Unclosed(s, i + 1, "string", i)
  ELSE IF s[i] = "/" /\ i < Len(s) /\ s[i + 1] = "/"
  THEN Unclosed(s, i + 2, "comment", open)
  ELSE Unclosed(s, i + 1, "code", open)
OpeningQuote == Unclosed(program, 1, "code", 0)
\* line and column of place i of the source
LineOf(i) == 1 + Cardinality({j \in 1..(i - 1) : program[j] = NL})
ColumnOf(i) ==
  i - (IF \E j \in 1..(i - 1) : program[j] = NL
       THEN CHOOSE j \in 1..(i - 1) :
              program[j] = NL /\ \A k \in (j + 1)..(i - 1) : program[k] # NL
       ELSE 0)

\* C16: lex raises a LexerError exactly when the end of input is reached
\* inside a string literal, and the error names the line and column of the
\* opening quote, also when the unterminated string spans several lines.
C16_UnterminatedString ==
  Done =>
    /\ (outcome.st = "throw") = (OpeningQuote # 0)
    /\ outcome.st = "throw" =>
         /\ outcome.kind = "LexerError"
         /\ outcome.message.tail =
              AtLine \o toString(LineOf(OpeningQuote)) \o <<":">>
              \o toString(ColumnOf(OpeningQuote))
\* C16 for strings that end on the line they open on
C16_SingleLine ==
  (Done /\ (OpeningQuote = 0 \/ LineOf(OpeningQuote) = LineOf(Len(program) + 1)))
  => C16_UnterminatedString

\* the evaluations of terminal rules during the parse
TerminalEvents == {i \in DOMAIN outcome.log : outcome.log[i].op = "terminal"}
\* the text of a string token between its quotes
Unquoted(value) == SubSeq(value, 2, Len(value) - 1)
TerminalStep(e) ==
  /\ e.to = e.from + 1
  /\ e.tok = tokens[e.from + 1]
  /\ e.st \in {"ok", "throw"}
  /\ e.st = "ok" =>
       /\ e.val.k \in {"str", "num"}
       /\ grammar \in {"Readme", "Command"} =>
            e.tok.type = "string" /\ e.val = StrV(Unquoted(e.tok.value))
  /\ e.st = "throw" =>
       /\ e.err.kind = "ParseError"
       /\ e.err.hasTok /\ e.err.tok = e.tok
       /\ e.err.msg.id \in {"Expected a string literal", "Expected a number literal",
                            "Expected an identifier"}
       /\ grammar \in {"Readme", "Command"} =>
            e.tok.type # "string" /\ e.err.msg.id = "Expected a string literal"

\* C17: a terminal rule consumes exactly one token, hands it to the rule's
\* parse callback and returns the callback's value as it is; when the
\* callback throws, a ParseError with the thrown message and that token is
\* raised, and where it reaches the caller the report names that token's
\* line and column.
C17_Terminal ==
  /\ \A i \in TerminalEvents : TerminalStep(outcome.log[i])
  /\ \A i \in TerminalEvents :
       (ErrorAtToken /\ outcome.err = [outcome.log[i].err EXCEPT !.exit = outcome.err.exit])
       => Contains(outcome.message.tail,
                   AtLine \o toString(outcome.log[i].tok.line) \o <<":">>
                   \o toString(outcome.log[i].tok.column) \o <<NL>>)
C17_Witness ==
  /\ grammar = "Readme" /\ ErrorAtToken
  /\ \E i \in TerminalEvents :
       /\ outcome.log[i].st = "throw" /\ outcome.log[i].from > 1
       /\ outcome.err.msg = outcome.log[i].err.msg
       /\ outcome.err.tok = outcome.log[i].tok
  /\ \E i \in TerminalEvents : outcome.log[i].st = "ok"

\* an options rule has raised a ParseError
OptionsFailed(e) == e.op = "options" /\ e.st = "throw" /\ e.err.kind = "ParseError"
Restored(e) ==
  /\ e.to = e.from
  /\ \A k \in DOMAIN e.alts : e.alts[k].from = e.from

\* C18 as stated: whenever an options rule raises a ParseError the cursor is
\* afterwards where it was before the attempt, and every alternative was
\* attempted from that position.
C18_OptionsRestore ==
  \A i \in OptionsEvents : OptionsFailed(outcome.log[i]) => Restored(outcome.log[i])

\* C18 amended: that holds when every alternative has failed without the
\* exit flag; an alternative's error with the exit flag is rethrown at once,
\* the cursor left where that alternative stopped.
C18_OptionsRestoreUnlessExit ==
  \A i \in OptionsEvents :
    LET e == outcome.log[i]
        last == e.alts[Len(e.alts)]
    IN OptionsFailed(e) =>
         IF e.err.exit
         THEN last.err = e.err /\ e.to = last.to
              /\ \A k \in DOMAIN e.alts : e.alts[k].from = e.from
         ELSE Restored(e)
C18_Witness ==
  \E i \in OptionsEvents :
    LET e == outcome.log[i]
    IN /\ OptionsFailed(e) /\ ~e.err.exit /\ Len(e.alts) >= 2 /\ e.from > 0
       /\ \E k \in DOMAIN e.alts : e.alts[k].to > e.from + 1

RECURSIVE Parts(_)
\* a rule and the rules written inside it
Parts(rule) ==
  {rule} \cup UNION {Parts(rule.sequence[i]) : i \in DOMAIN rule.sequence}
         \cup UNION {Parts(rule.options[i]) : i \in DOMAIN rule.options}
\* the rules evaluated: a reference to each rule of the grammar that its
\* entry rules reach (in grammar.ts all but _IGNORE and LOGICAL), its keyword
\* literals and, for the small grammars, every rule written in it
Shapes ==
  LET G == GrammarOf(grammar)
      names == DOMAIN G \ {"_IGNORE", "LOGICAL"}
  IN {Ref(n) : n \in names} \cup {Kw(w) : w \in findKeywords(G)}
     \cup (IF grammar = "Script" THEN {} ELSE UNION {Parts(G[n]) : n \in names})
\* the endToken a sequence lends to the rule it evaluates
EndTokens == IF grammar = "Script" THEN {Undefined, Kw(Word.rbrace)} ELSE {Undefined}
\* the evaluation of rule R with the cursor at p on the token stream
Evaluate(R, endToken, p) ==
  parseRule([grammar |-> GrammarOf(grammar), debug |-> debug, tokens |-> tokens],
            R, "", endToken, p, MaxDepth)
\* the states in which the rules are evaluated at every cursor: grammar.ts
\* on the statement sources of up to five tokens, the other grammars on all
\* their sources
Probed ==
  /\ Done /\ grammar # "App"
  /\ grammar = "Script" => (~debug /\ entry = "SCRIPT" /\ Len(tokens) <= 5)
Marked(R) == R.optional \/ R.repeat
\* the evaluation r, started at cursor p, has moved the cursor if it succeeded
Progress(p, r) == r.st = "ok" => r.pos > p

RECURSIVE Nullable(_, _, _)
\* the rule can match without a token, going by what parseRule dispatches on:
\* a repeat or optional rule, a reference to one, a capture or an options
\* rule around one, a sequence of nothing else
Nullable(G, rule, seen) ==
  IF rule.undef \/ rule.isString THEN FALSE
  ELSE IF rule.capture THEN Nullable(G, [rule EXCEPT !.capture = FALSE], seen)
  ELSE IF rule.parse # "" THEN FALSE
  ELSE IF rule.hasSeq
  THEN \A i \in DOMAIN rule.sequence : Nullable(G, rule.sequence[i], seen)
  ELSE IF rule.repeat \/ rule.optional THEN TRUE
  ELSE IF rule.hasOpts
  THEN \E i \in DOMAIN rule.options : Nullable(G, rule.options[i], seen)
  ELSE IF rule.type # ""
  THEN rule.type \notin seen
       /\ Nullable(G, Lookup(G, rule.type), seen \cup {rule.type})
  ELSE FALSE

\* C19 as stated: a successful evaluation of a rule that is not itself
\* marked optional or repeat, started at cursor p, ends at a cursor q > p,
\* whatever the rule's shape.
C19_Progress ==
  Probed =>
    \A R \in Shapes, endToken \in EndTokens, p \in 0..Len(tokens) :
      ~Marked(R) => Progress(p, Evaluate(R, endToken, p))

\* C19 amended: that holds for the rules that cannot match without a token;
\* a reference to a repeat or optional rule, and a capture, options rule or
\* sequence made of nothing else, can succeed where it started.
C19_ProgressUnlessNullable ==
  Probed =>
    \A R \in Shapes, endToken \in EndTokens, p \in 0..Len(tokens) :
      ~Nullable(GrammarOf(grammar), R, {}) => Progress(p, Evaluate(R, endToken, p))
C19_Witness ==
  /\ Probed /\ grammar = "Script"
  /\ \E p \in 0..Len(tokens) :
       /\ Evaluate(Ref("BLOCK"), Kw(Word.rbrace), p).st = "ok"
       /\ Evaluate(Ref("BLOCK"), Kw(Word.rbrace), p).pos = p + 2
       /\ Evaluate(Ref("SCRIPT"), Kw(Word.rbrace), p + 1).st = "ok"
       /\ Evaluate(Ref("SCRIPT"), Kw(Word.rbrace), p + 1).pos = p + 1

\* the options rule of event e has failed with every alternative tried, none
\* of them with the exit flag, each of them at a token
AllFailed(e) ==
  /\ OptionsFailed(e) /\ ~e.err.exit
  /\ \A k \in DOMAIN e.alts : e.alts[k].err.hasTok
\* the alternatives of e that failed at the largest token index
Furthest(e) ==
  {k \in DOMAIN e.alts :
     /\ e.alts[k].err.hasTok
     /\ \A j \in DOMAIN e.alts :
          e.alts[j].err.hasTok => e.alts[j].err.tok.index <= e.alts[k].err.tok.index}
\* `Expected ${currentType} but got ${token.value}` at the token of error f
Generalized(err, f) ==
  /\ err.kind = "ParseError" /\ err.hasTok /\ err.tok = f.tok
  /\ err.msg.id = "Expected type but got" /\ err.msg.value = f.tok.value

\* C20: when every alternative of an options rule fails without the exit
\* flag, the error raised is at the failing token with the largest index
\* among the alternatives' failures: the generalized error `Expected
\* <currentType> but got <value>` exactly when two or more alternatives
\* failed at that index, the one furthest alternative's own error, unchanged,
\* otherwise.
C20_FurthestError ==
  \A i \in OptionsEvents :
    LET e == outcome.log[i]
    IN AllFailed(e) =>
         \A k \in Furthest(e) :
           IF Cardinality(Furthest(e)) >= 2
           THEN Generalized(e.err, e.alts[k].err)
           ELSE e.err = e.alts[k].err

\* the evaluations of repeat rules during the parse
RepeatEvents == {i \in DOMAIN outcome.log : outcome.log[i].op = "repeat"}
\* the error of event i carries the exit flag
Flagged(i) == outcome.log[i].st = "throw" /\ outcome.log[i].err.exit
\* a repetition has failed, at or before event i, with the error err
FromRepeat(err, i) ==
  \E j \in RepeatEvents : j <= i /\ outcome.log[j].st = "throw" /\ outcome.log[j].err = err
\* the options rule of event e has caught an error with the exit flag only
\* from the last alternative it attempted, and has raised that very error
RethrownAtOnce(e) ==
  \A k \in DOMAIN e.alts :
    (e.alts[k].st = "throw" /\ e.alts[k].err.exit) =>
      /\ k = Len(e.alts)
      /\ e.st = "throw" /\ e.err = e.alts[k].err /\ e.to = e.alts[k].to

\* C21: the exit flag is set exactly on the ParseErrors raised while the
\* body of a repetition is evaluated: a repetition that fails with a
\* ParseError raises it with the flag, and every error that carries the flag
\* comes from a failed repetition; an options rule that catches a flagged
\* error rethrows that same error at once and attempts no later alternative.
C21_ExitFlag ==
  /\ \A i \in RepeatEvents :
       (outcome.log[i].st = "throw" /\ outcome.log[i].err.kind = "ParseError")
       => outcome.log[i].err.exit
  /\ \A i \in DOMAIN outcome.log : Flagged(i) => FromRepeat(outcome.log[i].err, i)
  /\ (outcome.st = "throw" /\ outcome.err.exit)
       => FromRepeat(outcome.err, Len(outcome.log))
  /\ \A i \in OptionsEvents : RethrownAtOnce(outcome.log[i])
C21_Witness ==
  /\ grammar = "Script" /\ outcome.st = "throw" /\ outcome.err.exit
  /\ \E i \in OptionsEvents :
       LET e == outcome.log[i]
       IN /\ Flagged(i) /\ Len(e.alts) = 2
          /\ e.alts[1].st = "throw" /\ ~e.alts[1].err.exit
          /\ e.alts[2].err.exit /\ e.alts[2].to > e.from + 3

\* a repetition has failed at event i: its body has raised a ParseError
RepeatFailed(i) ==
  outcome.log[i].st = "throw" /\ outcome.log[i].err.kind = "ParseError"

\* C22: a ParseError marked exit is never recovered by backtracking: once
\* the body of a repetition has failed, no enclosing optional or options
\* rule swallows the error, and the parse fails with that error.
C22_ExitNeverRecovered ==
  \A i \in RepeatEvents :
    RepeatFailed(i) =>
      /\ outcome.st = "throw" /\ outcome.kind = "ParseError"
      /\ outcome.err = outcome.log[i].err
\* C22 where no optional rule encloses a repetition
C22_UnlessOptional == grammar # "Names" => C22_ExitNeverRecovered

\* the sentinel probes of repetitions during the parse
ProbeEvents == {i \in DOMAIN outcome.log : outcome.log[i].op = "probe"}
\* the keyword lit matches at cursor p: the first token there that is no
\* comment has that value, letter case aside, and is no Keyword token
\* unless lit is alphanumeric
MatchesAt(lit, p) ==
  LET q == SkipIgnored(tokens, p)
  IN /\ q < Len(tokens)
     /\ toLowerCase(tokens[q + 1].value) = toLowerCase(lit)
     /\ tokens[q + 1].type = "keyword" => isAlphaNumeric(lit)
\* events i+1..j-1 are the ends of options and optional rules
Returning(i, j) ==
  \A k \in (i + 1)..(j - 1) : outcome.log[k].op \in {"options", "optional"}
\* the probe of event i matched: the repetition ends there with the cursor
\* where the probe began, and the next token consumed is the sentinel,
\* consumed by a keyword match
StopsAtSentinel(i) ==
  LET e == outcome.log[i]
      q == SkipIgnored(tokens, e.from)
  IN /\ i < Len(outcome.log)
     /\ outcome.log[i + 1].op = "repeat" /\ outcome.log[i + 1].st = "ok"
     /\ outcome.log[i + 1].to = e.from
     /\ \E j \in (i + 2)..Len(outcome.log) :
          /\ Returning(i + 1, j)
          /\ outcome.log[j].op = "keyword" /\ outcome.log[j].st = "ok"
          /\ outcome.log[j].from = q /\ outcome.log[j].to = q + 1
          /\ toLowerCase(outcome.log[j].tok.value) = toLowerCase(e.val.s)

\* C23: a repetition followed in its sequence by a keyword string probes for
\* that keyword before every iteration; the probe leaves the cursor where it
\* was, whether it matches or not; the repetition stops at the first
\* iteration where the keyword matches at the cursor (comments aside), with
\* the cursor still before that token, and the enclosing sequence then
\* consumes the sentinel. A repetition that ends without a match has reached
\* the end of input.
C23_Sentinel ==
  /\ \A i \in ProbeEvents :
       LET e == outcome.log[i]
       IN /\ e.to = e.from
          /\ (e.st = "ok") = MatchesAt(e.val.s, e.from)
          /\ e.st = "ok" => StopsAtSentinel(i)
  /\ \A i \in RepeatEvents :
       (outcome.log[i].st = "ok" /\ ~Exhausted(tokens, outcome.log[i].to))
       => (i - 1) \in ProbeEvents /\ outcome.log[i - 1].st = "ok"
C23_Witness ==
  /\ grammar = "Script" /\ outcome.st = "ok"
  /\ \E i, j \in ProbeEvents :
       /\ i < j
       /\ outcome.log[i].st = "throw" /\ outcome.log[j].st = "ok"
       /\ outcome.log[j].from > outcome.log[i].from
       /\ tokens[outcome.log[j].from + 1].type = "comment"
       /\ StopsAtSentinel(j)

\* the entry rule of the parse, and the sequence it is or captures
EntryRule == Lookup(GrammarOf(grammar), entry)
SequenceEntry ==
  /\ Done /\ outcome.kind # "LexerError" /\ EntryRule.hasSeq
  /\ ~Exhausted(tokens, SkipIgnored(tokens, 0))
\* a value is kept in the list: any value but nil or, with dropFalsy, any
\* value that JavaScript takes for true
Kept(v, dropFalsy) == IF dropFalsy THEN Truthy(v) ELSE v # Nil
RECURSIVE InOrder(_, _, _, _, _)
\* the children from the i-th on, evaluated in list order from cursor p, the
\* first failure ending the evaluation; collected holds the results kept
InOrder(children, i, p, collected, dropFalsy) ==
  IF i > Len(children)
  THEN [st |-> "ok", pos |-> p, err |-> NoErr,
        val |-> IF Len(collected) = 1 THEN collected[1] ELSE ListV(collected)]
  ELSE LET r == Evaluate(children[i], NextRule(children, i), p)
       IN IF r.st # "ok"
          THEN [st |-> r.st, pos |-> r.pos, err |-> r.err, val |-> Nil]
          ELSE InOrder(children, i + 1, r.pos,
                       IF Kept(r.val, dropFalsy) THEN Append(collected, r.val)
                       ELSE collected,
                       dropFalsy)
\* the parse is what the evaluation x of the entry rule's sequence makes it
SequenceResult(x) ==
  /\ outcome.st = x.st /\ position_ = x.pos
  /\ x.st = "throw" => outcome.err = x.err
  /\ x.st = "ok" =>
       Plain(outcome.val) =
         Plain(IF EntryRule.capture THEN NodeV(EntryRule.type, x.val) ELSE x.val)

\* C24: a sequence evaluates its children strictly in list order and fails
\* as soon as one fails, with that child's error; on success its result
\* holds every child result that is not nil, in order, scalar values such
\* as 0 and the empty string included, and is the single element itself
\* when exactly one result was collected, otherwise the list.
C24_Sequence ==
  SequenceEntry => SequenceResult(InOrder(EntryRule.sequence, 1, 0, <<>>, FALSE))
\* C24 with the results that JavaScript takes for true in place of the
\* results that are not nil
C24_SequenceOfTruthy ==
  SequenceEntry => SequenceResult(InOrder(EntryRule.sequence, 1, 0, <<>>, TRUE))

\* the keyword strings of the grammar
Literals == findKeywords(GrammarOf(grammar))
\* the string is made of letters and digits only
Alphanumeric(w) == w # <<>> /\ \A i \in DOMAIN w : w[i] \in AlphaSet \cup DigitSet
\* the keyword string w evaluated at cursor p, where t is the first token
\* that is no comment, at place q of the stream
KeywordMatch(w, p) ==
  LET q == SkipIgnored(tokens, p)
      t == tokens[q + 1]
      r == Evaluate(Kw(w), Undefined, p)
      same == toLowerCase(t.value) = toLowerCase(w)
      reserved == t.type = "keyword" /\ ~Alphanumeric(w)
  IN /\ r.pos = q + 1
     /\ (r.st = "ok") = (same /\ ~reserved)
     /\ r.st \in {"ok", "throw"}
     /\ r.st = "throw" =>
          /\ r.err.kind = "ParseError" /\ r.err.hasTok /\ r.err.tok = t
          /\ r.err.msg = IF reserved
                         THEN Message("Unexpected keyword", <<>>, t.value, "")
                         ELSE Message("Expected literal but got", w, t.value, "")
     /\ (r.st = "ok" /\ ~debug) => r.val = Nil
\* the keyword matches attempted during the parse
KeywordEvents == {i \in DOMAIN outcome.log : outcome.log[i].op = "keyword"}

\* C25: a bare keyword string evaluated where a token is left consumes
\* exactly that one token (comments before it are skipped) and succeeds
\* exactly when the token's value is the string, letter case aside, and the
\* token is no Keyword token unless the string is alphanumeric; a Keyword
\* token met by a string that is not alphanumeric raises `Unexpected keyword
\* '<value>'`, any other mismatch `Expected '<rule>' but got '<value>'`,
\* both with the consumed token; a match returns nothing when debug is off.
C25_Keyword ==
  /\ Done =>
       \A w \in Literals, p \in 0..Len(tokens) :
         ~Exhausted(tokens, SkipIgnored(tokens, p)) => KeywordMatch(w, p)
  /\ \A i \in KeywordEvents :
       /\ outcome.log[i].to = outcome.log[i].from + 1
       /\ outcome.log[i].tok = tokens[outcome.log[i].from + 1]
C25_Witness ==
  /\ \E i \in KeywordEvents :
       /\ outcome.log[i].st = "throw"
       /\ outcome.log[i].err.msg.id = "Unexpected keyword"
       /\ outcome.log[i].err.msg.value = Word.say
  /\ \E i \in KeywordEvents :
       /\ outcome.log[i].st = "throw"
       /\ outcome.log[i].err.msg.id = "Expected literal but got"
  /\ \E i \in KeywordEvents : outcome.log[i].st = "ok" /\ outcome.log[i].val = Nil

\* rule records on which fields coexist: every choice of capture, type,
\* parse, sequence, repeat, optional and options, the record with none of
\* them included
Mixed ==
  {[NoRule EXCEPT !.capture = c, !.type = t, !.parse = f,
                  !.hasSeq = s,
                  !.sequence = IF s THEN <<Kw(Word.hello), Ref("name")>> ELSE <<>>,
                  !.repeat = r, !.optional = o, !.hasOpts = a,
                  !.options = IF a THEN <<Kw(Word.dear), Ref("name")>> ELSE <<>>] :
     c \in BOOLEAN, t \in {"", "name"}, f \in {"", "IDENTIFIER"},
     s \in BOOLEAN, r \in BOOLEAN, o \in BOOLEAN, a \in BOOLEAN}
\* the first field present on the rule, in the order of the dispatch
First(R) ==
  IF R.capture THEN "capture" ELSE IF R.parse # "" THEN "parse"
  ELSE IF R.hasSeq THEN "sequence" ELSE IF R.repeat THEN "repeat"
  ELSE IF R.optional THEN "optional" ELSE IF R.hasOpts THEN "options"
  ELSE IF R.type # "" THEN "type" ELSE "none"
\* the rule with that field and no other
Alone(R) ==
  CASE First(R) = "parse" -> Terminal(R.parse)
    [] First(R) = "sequence" -> Seq_(R.sequence)
    [] First(R) = "options" -> Opts(R.options)
    [] First(R) = "type" -> Ref(R.type)
    [] OTHER -> R
\* the rule without the flag that decides, as the sub-parser evaluates it
Stripped(R) ==
  CASE First(R) = "capture" -> [R EXCEPT !.capture = FALSE]
    [] First(R) = "repeat" -> [R EXCEPT !.repeat = FALSE]
    [] First(R) = "optional" -> [R EXCEPT !.optional = FALSE]
    [] OTHER -> R
Failed(r) == r.st = "throw" /\ r.err.kind = "ParseError"
\* r is how rule R evaluates at cursor p, one how the stripped rule
\* evaluates behind the comments, at q
SelectedBy(R, p, q, r, one) ==
  CASE Exhausted(tokens, p) ->
         r.st = "throw" /\ r.err = ParseError(EndOfInput) /\ r.pos = p
    [] ~Exhausted(tokens, p) /\ Exhausted(tokens, q) -> TRUE
    [] ~Exhausted(tokens, q) /\ First(R) \in {"parse", "sequence", "options", "type"} ->
         r = Evaluate(Alone(R), Undefined, p)
    [] ~Exhausted(tokens, q) /\ First(R) = "capture" ->
         /\ r.st = one.st /\ r.pos = one.pos /\ r.err = one.err
         /\ r.st = "ok" => Plain(r.val) = NodeV(R.type, Plain(one.val))
    [] ~Exhausted(tokens, q) /\ First(R) = "repeat" ->
         /\ Failed(one) =>
              /\ r.st = "throw" /\ r.pos = one.pos
              /\ r.err = [one.err EXCEPT !.exit = TRUE]
         /\ r.st = "ok" =>
              /\ r.val.k = "list" /\ one.st = "ok"
              /\ Truthy(one.val) => r.val.items[1] = one.val
    [] ~Exhausted(tokens, q) /\ First(R) = "optional" ->
         /\ one.st = "ok" => (r.st = "ok" /\ r.val = one.val /\ r.pos = one.pos)
         /\ Failed(one) => (r.st = "ok" /\ r.val = Nil /\ r.pos = q)
    [] ~Exhausted(tokens, q) /\ First(R) = "none" ->
         /\ r.st = "throw" /\ r.pos = q
         /\ r.err = ParseError(Message("No matching rule found", <<>>, <<>>, ""))
Selected(R, p) ==
  SelectedBy(R, p, SkipIgnored(tokens, p), Evaluate(R, Undefined, p),
             Evaluate(Stripped(R), Undefined, SkipIgnored(tokens, p)))
\* the states in which the rule records are evaluated: the token streams of
\* up to three tokens of the grammar with the rule `name`
Dispatched == Done /\ grammar = "Optional" /\ entry = "greet" /\ Len(tokens) <= 3

\* C26: parseRule selects the evaluation by the first field present in the
\* order capture, parse, sequence, repeat, optional, options, type, after
\* the end-of-input test and the comment skip: on an exhausted stream every
\* rule raises ParseError("Unexpected end of input"); a rule with parse,
\* sequence, options or type first evaluates as the rule with that field
\* alone; capture, repeat and optional wrap the evaluation of the rule
\* without that flag in a node, a list, or a result that cannot fail; a rule
\* with none of the fields raises ParseError("No matching rule found").
C26_Dispatch ==
  Dispatched => \A R \in Mixed, p \in 0..Len(tokens) : Selected(R, p)
C26_Witness ==
  /\ Dispatched /\ Len(tokens) = 3
  /\ \E R \in Mixed :
       /\ R.hasSeq /\ R.repeat /\ R.optional /\ R.hasOpts /\ First(R) = "sequence"
       /\ Evaluate(R, Undefined, 0).st = "ok" /\ Evaluate(R, Undefined, 0).pos = 2
       /\ Evaluate(R, Undefined, 2).st = "throw"

\* lex has returned a token stream
Lexed == Done /\ outcome.st = "ok"
\* the tokens lex made, whitespace tokens included
Emitted == lex(program, findKeywords(GrammarOf(grammar))).all
Placed(toks) == \A i \in DOMAIN toks : toks[i].line >= 1 /\ toks[i].column >= 1
Ascending(toks) == \A i \in 1..(Len(toks) - 1) : toks[i].index <= toks[i + 1].index

\* C27: every token that lex emits has line >= 1 and column >= 1, and the
\* index field never decreases from one token of the list to the next, in
\* the list lex makes and in the stream's list without the whitespace.
C27_TokenPlaces ==
  Lexed => /\ Placed(tokens) /\ Ascending(tokens)
           /\ Placed(Emitted) /\ Ascending(Emitted)
C27_Witness ==
  /\ Lexed /\ Len(tokens) >= 2
  /\ tokens[1].index = tokens[2].index
  /\ \E i \in DOMAIN tokens : tokens[i].line = 2 /\ tokens[i].column = 1
  /\ \E i \in DOMAIN Emitted : Emitted[i].type = "whitespace"

RECURSIVE CodePlaces(_, _, _)
\* the places (from 1) of the source s, from i on, that lie outside string
\* literals and comments; the scan is in mode "code", "comment" or "string"
CodePlaces(s, i, mode) ==
  IF i > Len(s) THEN {}
  ELSE IF mode = "string"
  THEN CodePlaces(s, i + 1, IF s[i] = QUOTE THEN "code" ELSE "string")
  ELSE IF mode = "comment" /\ s[i] # NL THEN CodePlaces(s, i + 1, "comment")
  ELSE IF s[i] = QUOTE THEN CodePlaces(s, i + 1, "string")
  ELSE IF s[i] = "/" /\ i < Len(s) /\ s[i + 1] = "/"
  THEN CodePlaces(s, i + 1, "comment")
  ELSE {i} \cup CodePlaces(s, i + 1, "code")
Signs == {i \in CodePlaces(program, 1, "code") : program[i] \in {"+", "-"}}
BeforeDigit(i) == i < Len(program) /\ program[i + 1] \in DigitSet
\* a Number token begins with the sign at place i
NumberAt(i) ==
  \E k \in DOMAIN tokens :
    /\ tokens[k].type = "number" /\ tokens[k].value[1] = program[i]
    /\ tokens[k].index - Len(tokens[k].value) = i - 1
\* an Operator token is the sign at place i
OperatorAt(i) ==
  \E k \in DOMAIN tokens :
    /\ tokens[k].type = "operator" /\ tokens[k].value = <<program[i]>>
    /\ tokens[k].index = i - 1

\* C28: a `+` or `-` outside string literals and comments that is
\* immediately followed by a digit is lexed as the sign of a Number token,
\* whatever precedes it (`a-1` is the Identifier `a` and the Number `-1`);
\* one that is not followed by a digit is an Operator token.
C28_Signs ==
  Lexed =>
    \A i \in Signs :
      IF BeforeDigit(i) THEN NumberAt(i) /\ ~OperatorAt(i)
      ELSE OperatorAt(i) /\ ~NumberAt(i)
C28_Witness ==
  /\ Lexed /\ program = <<"a", "-", "1">>
  /\ Len(tokens) = 2
  /\ tokens[1].type = "identifier" /\ tokens[1].value = <<"a">>
  /\ tokens[2].type = "number" /\ tokens[2].value = <<"-", "1">>

\* the cursor's moves during the parse, in order: the tokens consumed by
\* keyword matches and terminals, and the seeks
Moves == SelectSeq(outcome.log, LAMBDA e : e.op \in {"keyword", "terminal", "seek"})
SeekEvents == {i \in DOMAIN outcome.log : outcome.log[i].op = "seek"}
\* from cursor a the comment skip of parseRule, which consumes the comment
\* tokens one by one, reaches cursor b
Skipped(a, b) == a <= b /\ \A k \in (a + 1)..b : tokens[k].type = "comment"
InStream(p) == p \in 0..Len(tokens)
\* the seek of event k goes to the cursor that the rule it belongs to saved
\* on entry: an optional rule or a probe that ends right after it, or an
\* options rule that ends later and had an alternative fail where the seek
\* starts
ToSaved(k) ==
  LET e == outcome.log[k]
  IN \E j \in (k + 1)..Len(outcome.log) :
       LET rule == outcome.log[j]
       IN /\ rule.from = e.to
          /\ \/ rule.op \in {"optional", "probe"} /\ j = k + 1
             \/ /\ rule.op = "options"
                /\ \E a \in DOMAIN rule.alts :
                     rule.alts[a].st = "throw" /\ rule.alts[a].to = e.from

\* M is a course of moves that starts at cursor 0 and ends at cursor last:
\* forward by one token consumed, or by comments skipped, back by seeks
Course(M, last) ==
  /\ \A k \in DOMAIN M :
       /\ InStream(M[k].from) /\ InStream(M[k].to)
       /\ Skipped(IF k = 1 THEN 0 ELSE M[k - 1].to, M[k].from)
       /\ IF M[k].op = "seek" THEN M[k].to <= M[k].from
          ELSE M[k].to = M[k].from + 1
  /\ InStream(last)
  /\ Skipped(IF M = <<>> THEN 0 ELSE M[Len(M)].to, last)

\* C29: during a parse the cursor moves forward only by consuming one token
\* at a time (the tokens matched, and the comments skipped before them);
\* every seek, in optional, options and the sentinel probe, goes to the
\* position that rule saved on entry, which is at or before the cursor; the
\* cursor stays within 0..number of tokens.
C29_CursorMoves ==
  outcome.st \in {"ok", "throw"} =>
    /\ Course(Moves, position_)
    /\ \A k \in SeekEvents : ToSaved(k)
C29_Witness ==
  /\ grammar = "Script" /\ outcome.st = "ok"
  /\ \E k \in DOMAIN tokens : tokens[k].type = "comment"
  /\ \E j, k \in SeekEvents :
       /\ outcome.log[j + 1].op = "probe"
       /\ outcome.log[k + 1].op \notin {"optional", "probe"}
       /\ outcome.log[k].to < outcome.log[k].from
\* the same for a parse that ends in an optional rule's seek
C29_WitnessOptional ==
  /\ grammar = "Optional" /\ outcome.st = "ok" /\ SeekEvents # {}
  /\ outcome.log[Len(outcome.log)].op = "optional"
  /\ outcome.log[Len(outcome.log) - 1].op = "seek"
  /\ outcome.log[Len(outcome.log) - 1].to < outcome.log[Len(outcome.log) - 1].from

\* the grammars without left recursion whose references all resolve
\* (grammar.ts has the left-recursive rule LOGICAL, and _IGNORE refers to
\* rules it does not define)
WellFormed == grammar \notin {"App", "Script"}

\* C30: termination: with a grammar without left recursion whose references
\* all resolve, parse returns a CST or raises for every source; no
\* repetition goes on with an iteration that neither consumes a token, nor
\* stops the loop, nor raises.
C30_Terminates == (Done /\ WellFormed) => outcome.st \in {"ok", "throw"}
\* C30 for the grammars in which no repetition has a body that can match
\* without a token
C30_UnlessNullableBody == (Done /\ grammar # "Names") => outcome.st \in {"ok", "throw"}

====
